---------------------------- MODULE Spec2Model ----------------------------
(***************************************************************************)
(* Model of the OData1C client library: the MetadataManager (lazy load,    *)
(* XML parse, cache, reset, recursive property expansion), sequentially    *)
(* and under two concurrent callers, and with its lists as objects that    *)
(* callers hold references to; the Q filter expression builder             *)
(* (construction, & | ~, rendering); and the query managers ODataManager   *)
(* and EntityManager (filter, all, validation of the response items).      *)
(*                                                                         *)
(* Strings are sequences of lexemes: "Collection(NS.B_RowType)" is         *)
(* <<"Collection(", "NS", ".", "B", "_RowType", ")">>.  The string         *)
(* operations of the source (startswith, endswith, split, replace, slice)  *)
(* act on these sequences the way Python acts on the characters.           *)
(***************************************************************************)
EXTENDS Integers, Sequences, FiniteSets, TLC

\* ------------------------------------------------------------------ bounds

\* Length of the chain of types T1 -> T2 -> ... in the chain document.
MaxChain == 7

\* Number of requests the transport serves in one behaviour.
MaxFetches == 3

\* ------------------------------------------------------- program constants

MAX_RECURSION_DEPTH == 5

HTTPStatus_OK == 200

\* ---------------------------------------------------------------- strings

\* An optional string: Python's None, or a str (possibly empty).
None == [none |-> TRUE, str |-> <<>>]

Some(s) == [none |-> FALSE, str |-> s]

\* Python truthiness of an optional string: None and "" are falsy.
Truthy(o) == ~o.none /\ o.str # <<>>

Str(lexeme) == <<lexeme>>

EdmType(t) == <<"Edm", ".", t>>

\* "Collection(StandardODATA.<inner>)"
CollectionOf(inner) == <<"Collection(", "StandardODATA", ".">> \o inner \o <<")">>

RowType(name) == name \o <<"_RowType">>

RECURSIVE LastIndexOf(_, _, _)
\* Index of the last occurrence of lexeme x in s[1..i], 0 when there is none.
LastIndexOf(s, x, i) ==
    IF i = 0 THEN 0
    ELSE IF s[i] = x THEN i
    ELSE LastIndexOf(s, x, i - 1)

\* s.split('.')[-1]
LastSegment(s) == SubSeq(s, LastIndexOf(s, ".", Len(s)) + 1, Len(s))

\* s.replace(x, ""): every occurrence of x is removed.
RemoveAll(s, x) == SelectSeq(s, LAMBDA c : c # x)

\* -------------------------------------------------------------- documents

\* An XML metadata document is the sequence, in document order, of the
\* elements below its root; an EntityType element carries its child elements.
EntitySetElem(name) == [tag |-> "EntitySet", Name |-> name, children |-> <<>>]

EntityTypeElem(name, children) ==
    [tag |-> "EntityType", Name |-> name, children |-> children]

PropertyElem(name, type) == [tag |-> "Property", Name |-> name, Type |-> type]

NavigationPropertyElem(name) ==
    [tag |-> "NavigationProperty", Name |-> name, Type |-> None]

Prop(name, type) == PropertyElem(Some(Str(name)), Some(type))

\* The fixture of tests/test_metadata_manager.py: TestEntity / TestEntities.
DocFixture ==
    << EntityTypeElem(Some(Str("TestEntity")),
           << Prop("ID", EdmType("Int32")), Prop("Name", EdmType("String")) >>),
       EntitySetElem(Some(Str("TestEntities"))) >>

\* Elements and properties that lack a Name or a Type, or carry an empty one.
DocSkips ==
    << EntitySetElem(None),
       EntitySetElem(Some(<<>>)),
       EntitySetElem(Some(Str("Orders"))),
       EntityTypeElem(None, << Prop("Hidden", EdmType("String")) >>),
       EntityTypeElem(Some(Str("Order")),
           << PropertyElem(None, Some(EdmType("String"))),
              PropertyElem(Some(Str("Number")), None),
              PropertyElem(Some(<<>>), Some(EdmType("String"))),
              Prop("Date", EdmType("DateTime")),
              NavigationPropertyElem(Some(Str("Customer"))) >>),
       EntitySetElem(Some(Str("TestEntities"))) >>

\* A references B and B references A; S references itself.
DocCycle ==
    << EntityTypeElem(Some(Str("A")),
           << Prop("Id", EdmType("Int32")),
              Prop("Bs", CollectionOf(RowType(Str("B")))) >>),
       EntityTypeElem(Some(Str("B")),
           << Prop("As", CollectionOf(RowType(Str("A")))),
              Prop("Id", EdmType("Int32")) >>),
       EntityTypeElem(Some(Str("S")),
           << Prop("Children", CollectionOf(RowType(Str("S")))) >>),
       EntitySetElem(Some(Str("As"))) >>

\* B is referenced by two sibling properties of A; D is referenced from two
\* different branches below P.
DocSiblings ==
    << EntityTypeElem(Some(Str("A")),
           << Prop("First", CollectionOf(RowType(Str("B")))),
              Prop("Second", CollectionOf(RowType(Str("B")))) >>),
       EntityTypeElem(Some(Str("B")), << Prop("Id", EdmType("Int32")) >>),
       EntityTypeElem(Some(Str("P")),
           << Prop("Left", CollectionOf(RowType(Str("Q")))),
              Prop("Right", CollectionOf(RowType(Str("R")))) >>),
       EntityTypeElem(Some(Str("Q")),
           << Prop("Ds", CollectionOf(RowType(Str("D")))) >>),
       EntityTypeElem(Some(Str("R")),
           << Prop("Ds", CollectionOf(RowType(Str("D")))) >>),
       EntityTypeElem(Some(Str("D")), << Prop("Id", EdmType("Int32")) >>),
       EntitySetElem(Some(Str("As"))) >>

\* Collection types whose inner name has no _RowType suffix, or has the
\* lexeme _RowType in the middle.
DocRowType ==
    << EntityTypeElem(Some(Str("A")),
           << Prop("Plain", CollectionOf(RowType(Str("B")))),
              Prop("NoSuffix", CollectionOf(Str("B"))),
              Prop("Middle", CollectionOf(RowType(<<"X", "_RowType", "Y">>))),
              Prop("Empty", <<"Collection(", ")">>),
              Prop("Open", <<"Collection(", "StandardODATA", ".", "B", "_RowType">>) >>),
       EntityTypeElem(Some(Str("B")), << Prop("Id", EdmType("Int32")) >>),
       EntityTypeElem(Some(<<"X", "_RowType", "Y">>),
           << Prop("Id", EdmType("Int32")) >>),
       EntityTypeElem(Some(<<"X", "Y">>), << Prop("Code", EdmType("String")) >>),
       EntitySetElem(Some(Str("As"))) >>

ChainName(i) == <<"T", ToString(i)>>

\* T1 -> T2 -> ... -> Tn, each type referencing the next one.
DocChain(n) ==
    [ i \in 1..n |->
        EntityTypeElem(Some(ChainName(i)),
            IF i < n
            THEN << Prop("Id", EdmType("Int32")),
                    Prop("Items", CollectionOf(RowType(ChainName(i + 1)))) >>
            ELSE << Prop("Id", EdmType("Int32")) >>) ]

\* The documents the service may answer with.
Docs == << DocFixture, DocSkips, DocCycle, DocSiblings, DocRowType,
           DocChain(MaxChain) >>

DocIds == 1..Len(Docs)

\* ------------------------------------------------------------- transport

\* What Connection.send_request does with the one GET request: it raises a
\* connection error, or returns a response with a status code and a body.
\* The body is one of the documents, or text that is not well-formed XML.
XmlText(d) == [xml |-> TRUE, doc |-> d]

MalformedText == [xml |-> FALSE, doc |-> 0]

Texts == { XmlText(d) : d \in DocIds } \cup { MalformedText }

StatusCodes == { HTTPStatus_OK, 404, 500 }

\* The reason phrase a server sends with a status code.
ReasonPhrase(status_code) ==
    CASE status_code = 200 -> <<"OK">>
      [] status_code = 201 -> <<"Created">>
      [] status_code = 404 -> <<"Not", " ", "Found">>
      [] status_code = 500 -> <<"Internal", " ", "Server", " ", "Error">>
      [] OTHER -> <<>>

\* A request that ends in a network error or a timeout: no response exists.
ConnectionFailure ==
    [failed |-> TRUE, status_code |-> 0, reason |-> <<>>, text |-> MalformedText]

\* The body of an error response plays no part: one body stands for all.
Responses ==
    { ConnectionFailure } \cup
    { [failed |-> FALSE, status_code |-> s, reason |-> ReasonPhrase(s),
       text |-> MalformedText] :
        s \in StatusCodes \ { HTTPStatus_OK } } \cup
    { [failed |-> FALSE, status_code |-> HTTPStatus_OK,
       reason |-> ReasonPhrase(HTTPStatus_OK), text |-> t] :
        t \in Texts }

\* ---------------------------------------------------- MetadataManager: parse

\* root.findall(".//{ns}<tag>"): the elements with that tag, in document order.
findall(elements, tag) == SelectSeq(elements, LAMBDA e : e.tag = tag)

RECURSIVE EntitySetNames_NoSkip(_, _, _)
\* Mutant: elements without a Name are not skipped.
EntitySetNames_NoSkip(found, i, acc) ==
    IF i > Len(found) THEN acc
    ELSE EntitySetNames_NoSkip(found, i + 1, Append(acc, found[i].Name.str))

RECURSIVE EntitySetNames(_, _, _)
\* [es.get("Name") for es in <EntitySet elements> if es.get("Name")]
EntitySetNames(found, i, acc) ==
    IF i > Len(found) THEN acc
    ELSE IF Truthy(found[i].Name)
         THEN EntitySetNames(found, i + 1, Append(acc, found[i].Name.str))
         ELSE EntitySetNames(found, i + 1, acc)

RECURSIVE PropertyDicts(_, _, _)
\* [{"name": .., "type": ..} for prop in <Property elements>
\*  if prop.get("Name") and prop.get("Type")]
PropertyDicts(found, i, acc) ==
    IF i > Len(found) THEN acc
    ELSE IF Truthy(found[i].Name) /\ Truthy(found[i].Type)
         THEN PropertyDicts(found, i + 1,
                  Append(acc, [name |-> found[i].Name.str,
                               type |-> found[i].Type.str]))
         ELSE PropertyDicts(found, i + 1, acc)

\* d[key] = value on a dict modelled as a function.
DictSet(d, key, value) ==
    [ k \in DOMAIN d \cup {key} |-> IF k = key THEN value ELSE d[k] ]

EmptyDict == [ k \in {} |-> <<>> ]

RECURSIVE EntityTypeLoop(_, _, _, _)
\* The for loop over the EntityType elements.
EntityTypeLoop(found, i, entity_types, entity_type_properties) ==
    IF i > Len(found)
    THEN [entity_types |-> entity_types,
          entity_type_properties |-> entity_type_properties]
    ELSE IF ~Truthy(found[i].Name)
         THEN EntityTypeLoop(found, i + 1, entity_types, entity_type_properties)
         ELSE EntityTypeLoop(found, i + 1,
                  Append(entity_types, found[i].Name.str),
                  DictSet(entity_type_properties, found[i].Name.str,
                          PropertyDicts(findall(found[i].children, "Property"),
                                        1, <<>>)))

_parse_metadata_tree(root) ==
    LET entity_sets == EntitySetNames(findall(root, "EntitySet"), 1, <<>>)
        types == EntityTypeLoop(findall(root, "EntityType"), 1, <<>>, EmptyDict)
    IN  [entity_sets |-> entity_sets,
         entity_types |-> types.entity_types,
         entity_type_properties |-> types.entity_type_properties]

\* ------------------------------------------------ MetadataManager: expansion

_get_related_type(type_str) ==
    IF Len(type_str) >= 2 /\ Head(type_str) = "Collection("
                          /\ type_str[Len(type_str)] = ")"
    THEN LET content == SubSeq(type_str, 2, Len(type_str) - 1)
             related == LastSegment(content)
         IN  Some(RemoveAll(related, "_RowType"))
    ELSE None

\* Mutant: the visited-set is not consulted.
ExpansionStops_DepthOnly(entity_type, depth, visited) ==
    depth > MAX_RECURSION_DEPTH

\* Mutant: the depth is not consulted.
ExpansionStops_VisitedOnly(entity_type, depth, visited) ==
    entity_type \in visited

\* if entity_type in visited or depth > MAX_RECURSION_DEPTH: return []
ExpansionStops(entity_type, depth, visited) ==
    entity_type \in visited \/ depth > MAX_RECURSION_DEPTH

\* self._entity_type_properties.get(entity_type, [])
PropertiesOf(entity_type_properties, entity_type) ==
    IF entity_type \in DOMAIN entity_type_properties
    THEN entity_type_properties[entity_type]
    ELSE <<>>

\* if related_type and related_type in self._entity_type_properties
IsExpanded(entity_type_properties, type_str) ==
    LET related_type == _get_related_type(type_str)
    IN  Truthy(related_type) /\ related_type.str \in DOMAIN entity_type_properties

ExpandedEntry(prop, depth, properties) ==
    [name |-> prop.name \o <<" (expanded)">>,
     type |-> <<"Collection">>,
     depth |-> depth + 1,
     properties |-> properties]

RECURSIVE _expand_properties(_, _, _, _)
RECURSIVE ExpandLoop(_, _, _, _, _, _, _)

\* The for loop of _expand_properties over properties[i..]; visited is the
\* one set object shared by all the recursive calls, so what a nested call
\* adds to it is seen by the rest of the loop.  calls counts the invocations
\* of _expand_properties made so far.
ExpandLoop(etp, properties, i, depth, visited, expanded_properties, calls) ==
    IF i > Len(properties)
    THEN [result |-> expanded_properties, visited |-> visited, calls |-> calls]
    ELSE LET prop == properties[i]
         IN  IF IsExpanded(etp, prop.type)
             THEN LET sub == _expand_properties(etp,
                                 _get_related_type(prop.type).str,
                                 depth + 1, visited)
                  IN  ExpandLoop(etp, properties, i + 1, depth, sub.visited,
                          expanded_properties \o
                              << prop, ExpandedEntry(prop, depth, sub.result) >>,
                          calls + sub.calls)
             ELSE ExpandLoop(etp, properties, i + 1, depth, visited,
                      Append(expanded_properties, prop), calls)

_expand_properties(etp, entity_type, depth, visited) ==
    IF ExpansionStops(entity_type, depth, visited)
    THEN [result |-> <<>>, visited |-> visited, calls |-> 1]
    ELSE ExpandLoop(etp, PropertiesOf(etp, entity_type), 1, depth,
                    visited \cup {entity_type}, <<>>, 1)

\* ------------------------------------------------ MetadataManager: loading

\* __init__: nothing loaded, three empty structures.
NewMetadataManager ==
    [_is_metadata_loaded |-> FALSE,
     _entity_sets |-> <<>>,
     _entity_types |-> <<>>,
     _entity_type_properties |-> EmptyDict]

\* Connection.send_request: one attempt to send; a network error or a timeout
\* of that attempt is raised as ODataConnectionError, any response is returned.
send_request(response) ==
    [raised |-> IF response.failed THEN "ODataConnectionError" ELSE "none",
     attempts |-> 1]

\* Mutant: only client and server error statuses raise.
_check_response_ErrorStatusOnly(response, expected_status) ==
    IF response.status_code >= 400
    THEN [raised |-> "ODataResponseError",
          status_code |-> response.status_code,
          reason |-> response.reason,
          details |-> response.text]
    ELSE [raised |-> "none", status_code |-> 0, reason |-> <<>>,
          details |-> MalformedText]

\* The error _check_response raises when the status is not the expected one,
\* with the arguments it is constructed with; raised is "none" when the method
\* returns normally.
_check_response(response, expected_status) ==
    IF response.status_code # expected_status
    THEN [raised |-> "ODataResponseError",
          status_code |-> response.status_code,
          reason |-> response.reason,
          details |-> response.text]
    ELSE [raised |-> "none", status_code |-> 0, reason |-> <<>>,
          details |-> MalformedText]

\* Mutant: a failed send is tried once more before the error propagates.
_fetch_metadata_xml_Retry(response) ==
    LET answered == send_request(response)
        checked == _check_response(response, HTTPStatus_OK)
    IN  IF answered.raised # "none"
        THEN [raised |-> answered.raised, text |-> MalformedText,
              sent |-> 2, attempts |-> 2 * answered.attempts]
        ELSE IF checked.raised # "none"
             THEN [raised |-> checked.raised, text |-> MalformedText,
                   sent |-> 1, attempts |-> answered.attempts]
             ELSE [raised |-> "none", text |-> response.text,
                   sent |-> 1, attempts |-> answered.attempts]

\* One send_request; its connection error and the status check propagate.
\* sent counts the send_request calls, attempts the transport's sends.
_fetch_metadata_xml(response) ==
    LET answered == send_request(response)
        checked == _check_response(response, HTTPStatus_OK)
    IN  IF answered.raised # "none"
        THEN [raised |-> answered.raised, text |-> MalformedText,
              sent |-> 1, attempts |-> answered.attempts]
        ELSE IF checked.raised # "none"
             THEN [raised |-> checked.raised, text |-> MalformedText,
                   sent |-> 1, attempts |-> answered.attempts]
             ELSE [raised |-> "none", text |-> response.text,
                   sent |-> 1, attempts |-> answered.attempts]

\* ET.fromstring: the element tree of well-formed text, ParseError otherwise.
ET_fromstring(xml_data) ==
    IF xml_data.xml
    THEN [raised |-> "none", root |-> Docs[xml_data.doc]]
    ELSE [raised |-> "ParseError", root |-> <<>>]

\* Mutant: the loaded flag is never set.
_load_and_parse_metadata_NoFlag(obj, response) ==
    LET fetched == _fetch_metadata_xml(response)
        tree == ET_fromstring(fetched.text)
        parsed == _parse_metadata_tree(tree.root)
    IN  IF fetched.raised # "none"
        THEN [obj |-> obj, raised |-> fetched.raised, sent |-> fetched.sent,
              attempts |-> fetched.attempts]
        ELSE IF tree.raised # "none"
        THEN [obj |-> obj, raised |-> tree.raised, sent |-> fetched.sent,
              attempts |-> fetched.attempts]
        ELSE [obj |-> [_is_metadata_loaded |-> FALSE,
                       _entity_sets |-> parsed.entity_sets,
                       _entity_types |-> parsed.entity_types,
                       _entity_type_properties |-> parsed.entity_type_properties],
              raised |-> "none", sent |-> fetched.sent,
              attempts |-> fetched.attempts]

\* Mutant: the loaded flag is set before the fetch, so a failure leaves it set.
_load_and_parse_metadata_FlagFirst(obj, response) ==
    LET fetched == _fetch_metadata_xml(response)
        tree == ET_fromstring(fetched.text)
        parsed == _parse_metadata_tree(tree.root)
        flagged == [obj EXCEPT !._is_metadata_loaded = TRUE]
    IN  IF fetched.raised # "none"
        THEN [obj |-> flagged, raised |-> fetched.raised, sent |-> fetched.sent,
              attempts |-> fetched.attempts]
        ELSE IF tree.raised # "none"
        THEN [obj |-> flagged, raised |-> tree.raised, sent |-> fetched.sent,
              attempts |-> fetched.attempts]
        ELSE [obj |-> [_is_metadata_loaded |-> TRUE,
                       _entity_sets |-> parsed.entity_sets,
                       _entity_types |-> parsed.entity_types,
                       _entity_type_properties |-> parsed.entity_type_properties],
              raised |-> "none", sent |-> fetched.sent,
              attempts |-> fetched.attempts]

\* Mutant: the parsed entity types are not stored.
_load_and_parse_metadata_TypesNotStored(obj, response) ==
    LET fetched == _fetch_metadata_xml(response)
        tree == ET_fromstring(fetched.text)
        parsed == _parse_metadata_tree(tree.root)
    IN  IF fetched.raised # "none"
        THEN [obj |-> obj, raised |-> fetched.raised, sent |-> fetched.sent,
              attempts |-> fetched.attempts]
        ELSE IF tree.raised # "none"
        THEN [obj |-> obj, raised |-> tree.raised, sent |-> fetched.sent,
              attempts |-> fetched.attempts]
        ELSE [obj |-> [_is_metadata_loaded |-> TRUE,
                       _entity_sets |-> parsed.entity_sets,
                       _entity_types |-> obj._entity_types,
                       _entity_type_properties |-> parsed.entity_type_properties],
              raised |-> "none", sent |-> fetched.sent,
              attempts |-> fetched.attempts]

_load_and_parse_metadata(obj, response) ==
    LET fetched == _fetch_metadata_xml(response)
        tree == ET_fromstring(fetched.text)
        parsed == _parse_metadata_tree(tree.root)
    IN  IF fetched.raised # "none"
        THEN [obj |-> obj, raised |-> fetched.raised, sent |-> fetched.sent,
              attempts |-> fetched.attempts]
        ELSE IF tree.raised # "none"
        THEN [obj |-> obj, raised |-> tree.raised, sent |-> fetched.sent,
              attempts |-> fetched.attempts]
        ELSE [obj |-> [_is_metadata_loaded |-> TRUE,
                       _entity_sets |-> parsed.entity_sets,
                       _entity_types |-> parsed.entity_types,
                       _entity_type_properties |-> parsed.entity_type_properties],
              raised |-> "none", sent |-> fetched.sent,
              attempts |-> fetched.attempts]

_ensure_metadata_loaded(obj, response) ==
    IF ~obj._is_metadata_loaded
    THEN _load_and_parse_metadata(obj, response)
    ELSE [obj |-> obj, raised |-> "none", sent |-> 0, attempts |-> 0]

\* Mutant: a type without known properties is an error.
get_properties_return_UnknownRaises(obj, entity_type) ==
    LET expansion == _expand_properties(obj._entity_type_properties,
                                        entity_type, 0, {})
    IN  IF entity_type \notin DOMAIN obj._entity_type_properties
        THEN [raised |-> "KeyError", value |-> <<>>, calls |-> 0]
        ELSE [raised |-> "none", value |-> expansion.result,
              calls |-> expansion.calls]

\* What get_properties returns once the metadata is loaded.
get_properties_return(obj, entity_type) ==
    LET expansion == _expand_properties(obj._entity_type_properties,
                                        entity_type, 0, {})
    IN  [raised |-> "none", value |-> expansion.result, calls |-> expansion.calls]

\* Mutant: only the flag is cleared, the structures are kept.
reset_metadata_object_FlagOnly(obj) ==
    [obj EXCEPT !._is_metadata_loaded = FALSE]

\* What reset_metadata leaves in the object.
reset_metadata_object(obj) ==
    [_is_metadata_loaded |-> FALSE,
     _entity_sets |-> <<>>,
     _entity_types |-> <<>>,
     _entity_type_properties |-> EmptyDict]

\* ------------------------------------------------------------------ state

VARIABLES
    self,       \* the MetadataManager object
    requests,   \* number of requests the connection has been asked to send
    lastCall,   \* the last public call: op, arg, what it raised or returned,
                \*   sent (requests it issued), attempts (sends the transport
                \*   tried for them), calls (_expand_properties
                \*   invocations), answer (what the transport answered), first
                \*   (no accessor before it), afterLoadedReset (it is the
                \*   accessor following a reset of a loaded manager),
                \*   afterFailure (the call before it was a failed accessor)
    history     \* what happened so far (for stating the properties):
                \*   allOk: no load has failed; accessed: an accessor was called;
                \*   resetsFollowed: resets directly followed by an accessor;
                \*   loadedResetsFollowed: resets of a loaded manager that an
                \*     accessor followed; pendingLoadedReset: one awaits it;
                \*   curDoc: the document of the load the cache holds (0: none);
                \*   prevDoc: the document the last effective reset discarded

VARIABLES
    callers,    \* concurrent callers of one manager: where each one stands
    pool,       \* the Q objects the program holds, in order of creation
    qCall,      \* the last operation on Q objects and its outcome
    input,      \* the arguments a pure function is applied to
    output,     \* what it returned or raised (Pending before it is applied)
    manager,    \* a query manager (ODataManager or EntityManager) object
    mgrCall,    \* the last call on the query manager and its outcome
    heap,       \* the list objects of a MetadataManager, by address
    held        \* the list a caller of the accessors keeps a reference to

mmVars == << self, requests, lastCall, history >>

concVars == << callers >>

qVars == << pool, qCall >>

pureVars == << input, output >>

mgrVars == << manager, mgrCall >>

heapVars == << heap, held >>

vars == << self, requests, lastCall, history, callers, pool, qCall, input,
           output, manager, mgrCall, heap, held >>

\* The value of a variable that a specification does not use.
Unused == [unused |-> TRUE]

\* A name no document declares.
UnknownType == <<"UnknownType">>

AccessorOps == { "get_entity_sets", "get_entity_types", "get_properties" }

\* The entity_type arguments get_properties is called with: types that the
\* documents declare (roots of the structures above) and one none declares.
EntityTypeArgs ==
    { Str("TestEntity"), Str("Order"), Str("A"), Str("B"), Str("S"), Str("P"),
      ChainName(1), ChainName(2), UnknownType }

\* The answers the transport may give to the request of one call.  A loaded
\* manager sends no request, so there one answer stands for all of them.
Offered(obj) ==
    IF obj._is_metadata_loaded THEN { ConnectionFailure } ELSE Responses

Init ==
    /\ self = NewMetadataManager
    /\ requests = 0
    /\ lastCall = [op |-> "__init__", arg |-> <<>>, raised |-> "none",
                   value |-> <<>>, sent |-> 0, attempts |-> 0,
                   calls |-> 0,
                   answer |-> "none", first |-> FALSE,
                   afterLoadedReset |-> FALSE, afterFailure |-> FALSE]
    /\ history = [allOk |-> TRUE, accessed |-> FALSE,
                  resetsFollowed |-> 0, loadedResetsFollowed |-> 0,
                  pendingLoadedReset |-> FALSE,
                  curDoc |-> 0, prevDoc |-> 0]
    /\ callers = Unused
    /\ pool = Unused
    /\ qCall = Unused
    /\ input = Unused
    /\ output = Unused
    /\ manager = Unused
    /\ mgrCall = Unused
    /\ heap = Unused
    /\ held = Unused

\* What the transport answered, told from the answer alone.
AnswerKind(response) ==
    IF response.failed THEN "connection_error"
    ELSE IF response.status_code # 200 THEN "bad_status"
    ELSE IF ~response.text.xml THEN "malformed"
    ELSE "ok"

\* The value an accessor returns after _ensure_metadata_loaded succeeded.
AccessorReturn(op, obj, arg) ==
    CASE op = "get_entity_sets" ->
           [raised |-> "none", value |-> obj._entity_sets, calls |-> 0]
      [] op = "get_entity_types" ->
           [raised |-> "none", value |-> obj._entity_types, calls |-> 0]
      [] op = "get_properties" -> get_properties_return(obj, arg)

\* One accessor call, from entry to return or raise.
Accessor(op, arg, response) ==
    LET ensured == _ensure_metadata_loaded(self, response)
        ret == IF ensured.raised # "none"
               THEN [raised |-> ensured.raised, value |-> <<>>, calls |-> 0]
               ELSE AccessorReturn(op, ensured.obj, arg)
    IN  /\ requests + ensured.sent <= MaxFetches
        /\ self' = ensured.obj
        /\ requests' = requests + ensured.sent
        /\ lastCall' = [op |-> op, arg |-> arg, raised |-> ret.raised,
                        value |-> ret.value, sent |-> ensured.sent,
                        attempts |-> ensured.attempts,
                        calls |-> ret.calls,
                        answer |-> IF ensured.sent > 0
                                   THEN AnswerKind(response) ELSE "none",
                        first |-> ~history.accessed,
                        afterLoadedReset |-> history.pendingLoadedReset,
                        afterFailure |-> (lastCall.op \in AccessorOps
                                          /\ lastCall.raised # "none")]
        /\ history' =
             [history EXCEPT
                !.allOk = @ /\ ensured.raised = "none",
                !.accessed = TRUE,
                !.resetsFollowed =
                    IF lastCall.op = "reset_metadata" THEN @ + 1 ELSE @,
                !.loadedResetsFollowed =
                    IF history.pendingLoadedReset THEN @ + 1 ELSE @,
                !.pendingLoadedReset = FALSE,
                !.curDoc = IF ensured.sent > 0 /\ ensured.raised = "none"
                           THEN response.text.doc ELSE @]
        /\ UNCHANGED << concVars, qVars, pureVars, mgrVars, heapVars >>

get_entity_sets ==
    \E response \in Offered(self) : Accessor("get_entity_sets", <<>>, response)

get_entity_types ==
    \E response \in Offered(self) : Accessor("get_entity_types", <<>>, response)

get_properties ==
    \E entity_type \in EntityTypeArgs : \E response \in Offered(self) :
        Accessor("get_properties", entity_type, response)

reset_metadata ==
    /\ self' = reset_metadata_object(self)
    /\ lastCall' = [op |-> "reset_metadata", arg |-> <<>>, raised |-> "none",
                    value |-> <<>>, sent |-> 0, attempts |-> 0,
                   calls |-> 0,
                    answer |-> "none", first |-> FALSE,
                    afterLoadedReset |-> FALSE, afterFailure |-> FALSE]
    /\ history' =
         [history EXCEPT
            !.pendingLoadedReset = @ \/ self._is_metadata_loaded,
            !.curDoc = 0,
            !.prevDoc = IF self._is_metadata_loaded THEN history.curDoc ELSE @]
    /\ UNCHANGED << requests, concVars, qVars, pureVars, mgrVars, heapVars >>

Next ==
    \/ get_entity_sets
    \/ get_entity_types
    \/ get_properties
    \/ reset_metadata

Spec == Init /\ [][Next]_vars

\* ------------------------------------------------------------ properties

Range(seq) == { seq[i] : i \in 1..Len(seq) }

FailedAnswers == { "connection_error", "bad_status", "malformed" }

\* C1 as stated: when every fetch succeeded and an accessor has been called,
\* the number of fetches is 1 + the number of resets that an accessor call
\* followed.
C1_FetchCountPerReset ==
    (history.allOk /\ history.accessed)
        => requests = 1 + history.resetsFollowed

\* C1 (amended): when every fetch succeeds, the first accessor call and each
\* accessor call that follows a reset of a loaded manager issue exactly one
\* fetch, every other accessor call issues none, and the number of fetches is
\* 1 + the number of resets of a loaded manager that an accessor call followed.
C1_FetchCount ==
    history.allOk =>
        /\ requests = (IF history.accessed THEN 1 ELSE 0)
                          + history.loadedResetsFollowed
        /\ lastCall.op \in AccessorOps =>
              lastCall.sent = IF lastCall.first \/ lastCall.afterLoadedReset
                              THEN 1 ELSE 0

\* get, reset, get, get: two fetches, the last accessor issued none.
C1_Witness ==
    /\ history.allOk
    /\ requests = 2
    /\ history.loadedResetsFollowed = 1
    /\ lastCall.op \in AccessorOps
    /\ lastCall.sent = 0

\* C2: an accessor call whose load fails (connection error, status other than
\* 200, or text that does not parse) raises and leaves the loaded flag false
\* and the three structures as they were; the accessor call after it issues a
\* fresh fetch.
C2_FailedLoadLeavesCache ==
    [][ /\ (lastCall'.op \in AccessorOps /\ lastCall'.answer \in FailedAnswers)
            => /\ lastCall'.raised # "none"
               /\ ~self'._is_metadata_loaded
               /\ self'._entity_sets = self._entity_sets
               /\ self'._entity_types = self._entity_types
               /\ self'._entity_type_properties = self._entity_type_properties
        /\ (/\ lastCall.op \in AccessorOps
            /\ lastCall.answer \in FailedAnswers
            /\ lastCall'.op \in AccessorOps)
            => requests' = requests + 1 ]_vars

\* A failed load was followed by an accessor call that fetched afresh and
\* succeeded.
C2_Witness ==
    /\ lastCall.afterFailure
    /\ lastCall.op \in AccessorOps
    /\ lastCall.sent = 1
    /\ lastCall.raised = "none"
    /\ self._is_metadata_loaded

\* C3: whenever the loaded flag is false, entity_sets, entity_types and
\* entity_type_properties are all empty.
C3_UnloadedIsEmpty ==
    ~self._is_metadata_loaded =>
        /\ self._entity_sets = <<>>
        /\ self._entity_types = <<>>
        /\ DOMAIN self._entity_type_properties = {}

\* A loaded manager was reset and the load after the reset failed.
C3_Witness ==
    /\ ~self._is_metadata_loaded
    /\ history.prevDoc # 0
    /\ lastCall.op \in AccessorOps
    /\ lastCall.answer \in FailedAnswers

\* The names a document declares, read off its elements.
DeclaredEntitySets(doc) ==
    { doc[i].Name.str : i \in { j \in DOMAIN doc : doc[j].tag = "EntitySet" /\ ~doc[j].Name.none } }

DeclaredEntityTypes(doc) ==
    { doc[i].Name.str : i \in { j \in DOMAIN doc : doc[j].tag = "EntityType" /\ ~doc[j].Name.none } }

\* C4: the successful load that follows a reset of a loaded manager leaves the
\* three structures equal to the parse of the newly fetched document; no
\* entity set, entity type or property list of the document loaded before
\* survives unless the new document declares it.
C4_ReloadReplaces ==
    (/\ lastCall.op \in AccessorOps
     /\ lastCall.sent > 0
     /\ lastCall.raised = "none"
     /\ history.prevDoc # 0)
    => LET new == Docs[history.curDoc]
           parsed == _parse_metadata_tree(new)
           old == _parse_metadata_tree(Docs[history.prevDoc])
       IN  /\ self._entity_sets = parsed.entity_sets
           /\ self._entity_types = parsed.entity_types
           /\ self._entity_type_properties = parsed.entity_type_properties
           /\ \A n \in Range(old.entity_sets) :
                 n \in Range(self._entity_sets) => n \in DeclaredEntitySets(new)
           /\ \A n \in Range(old.entity_types) :
                 /\ n \in Range(self._entity_types)
                       => n \in DeclaredEntityTypes(new)
                 /\ n \in DOMAIN self._entity_type_properties
                       => n \in DeclaredEntityTypes(new)

\* The reload fetched a document that lacks an entity set and an entity type
\* of the document loaded before the reset.
C4_Witness ==
    /\ lastCall.op \in AccessorOps
    /\ lastCall.sent > 0
    /\ lastCall.raised = "none"
    /\ history.prevDoc # 0
    /\ history.prevDoc # history.curDoc
    /\ LET old == _parse_metadata_tree(Docs[history.prevDoc])
       IN  /\ \E n \in Range(old.entity_sets) : n \notin Range(self._entity_sets)
           /\ \E n \in Range(old.entity_types) :
                 n \notin DOMAIN self._entity_type_properties

\* An entry of a get_properties result that _expand_properties made up for
\* a collection property (it has a depth tag and nested properties).
IsSynthetic(entry) == "properties" \in DOMAIN entry

\* The entries of a result that are the type's own properties.
OwnProperties(entries) == SelectSeq(entries, LAMBDA e : ~IsSynthetic(e))

RECURSIVE SumOfLengths(_, _)
SumOfLengths(d, keys) ==
    IF keys = {} THEN 0
    ELSE LET k == CHOOSE x \in keys : TRUE
         IN  Len(d[k]) + SumOfLengths(d, keys \ {k})

\* The number of properties a schema declares, over all its types.
TotalProperties(etp) == SumOfLengths(etp, DOMAIN etp)

RECURSIVE CountEntries(_)
\* The number of entries of a result, nested ones included.
CountEntries(entries) ==
    IF entries = <<>> THEN 0
    ELSE (IF IsSynthetic(Head(entries))
          THEN 1 + CountEntries(Head(entries).properties) ELSE 1)
         + CountEntries(Tail(entries))

\* C5: recursive expansion terminates on every schema, cyclic ones included:
\* get_properties returns after at most 1 + (number of properties of the
\* schema) invocations of _expand_properties, with a result of at most
\* 2 * (number of properties of the schema) entries.
C5_ExpansionTerminates ==
    (lastCall.op = "get_properties" /\ lastCall.raised = "none")
    => /\ lastCall.calls <= 1 + TotalProperties(self._entity_type_properties)
       /\ CountEntries(lastCall.value)
              <= 2 * TotalProperties(self._entity_type_properties)

\* get_properties("A") on the schema where A references B and B references A
\* returned after expanding A, B and stopping at the reference back to A.
C5_Witness ==
    /\ lastCall.op = "get_properties"
    /\ lastCall.raised = "none"
    /\ Docs[history.curDoc] = DocCycle
    /\ lastCall.arg = Str("A")
    /\ lastCall.calls = 3
    /\ CountEntries(lastCall.value) = 6

RECURSIVE OnlyAncestorsCut(_, _, _)
\* Below a chain of ancestors: every synthetic entry whose referenced type is
\* not on the chain (and whose depth is within the limit) carries the full
\* property list of that type; and so on below it.
OnlyAncestorsCut(etp, entries, chain) ==
    \A i \in 1..Len(entries) :
        IsSynthetic(entries[i]) =>
            LET related == _get_related_type(entries[i - 1].type).str
            IN  /\ (related \notin chain /\ entries[i].depth <= MAX_RECURSION_DEPTH)
                      => OwnProperties(entries[i].properties)
                             = PropertiesOf(etp, related)
                /\ OnlyAncestorsCut(etp, entries[i].properties,
                                    chain \cup {related})

\* C6 as stated: in a get_properties result a referenced type is cut to an
\* empty expansion by the visited-set only when it is an ancestor of the place
\* where it is referenced; referenced from siblings or from different
\* branches it is expanded in full in each place.
C6_OnlyAncestorsCutExpansion ==
    (lastCall.op = "get_properties" /\ lastCall.raised = "none")
    => OnlyAncestorsCut(self._entity_type_properties, lastCall.value,
                        {lastCall.arg})

RECURSIVE DeepEntriesEmpty(_)
\* Every synthetic entry with a depth tag above the limit has no properties.
DeepEntriesEmpty(entries) ==
    \A i \in 1..Len(entries) :
        IsSynthetic(entries[i]) =>
            /\ entries[i].depth > MAX_RECURSION_DEPTH
                  => entries[i].properties = <<>>
            /\ DeepEntriesEmpty(entries[i].properties)

RECURSIVE MaxDepthTag(_)
\* The largest depth tag in a result, 0 when it has no synthetic entry.
MaxDepthTag(entries) ==
    IF entries = <<>> THEN 0
    ELSE LET rest == MaxDepthTag(Tail(entries))
             here == IF IsSynthetic(Head(entries))
                     THEN LET below == MaxDepthTag(Head(entries).properties)
                          IN  IF below > Head(entries).depth
                              THEN below ELSE Head(entries).depth
                     ELSE 0
         IN  IF here > rest THEN here ELSE rest

\* C7: an expansion step entered at a depth above MAX_RECURSION_DEPTH returns
\* an empty list although the type was never visited; so in every
\* get_properties result each synthetic entry whose depth tag exceeds the
\* limit has an empty properties list.
C7_DepthLimit ==
    /\ \A t \in DOMAIN self._entity_type_properties :
         \A d \in (MAX_RECURSION_DEPTH + 1)..(MAX_RECURSION_DEPTH + 2) :
            _expand_properties(self._entity_type_properties, t, d, {}).result
                = <<>>
    /\ (lastCall.op = "get_properties" /\ lastCall.raised = "none")
          => DeepEntriesEmpty(lastCall.value)

\* get_properties on the head of the chain reached a depth tag above the
\* limit, at a type that has properties and was not visited before.
C7_Witness ==
    /\ lastCall.op = "get_properties"
    /\ lastCall.raised = "none"
    /\ lastCall.arg = ChainName(1)
    /\ MaxDepthTag(lastCall.value) = MAX_RECURSION_DEPTH + 1
    /\ PropertiesOf(self._entity_type_properties,
                    ChainName(MAX_RECURSION_DEPTH + 2)) # <<>>

RECURSIVE TagsAreLevels(_, _)
\* Every synthetic entry of entries carries the depth tag level, and the
\* entries nested in it carry the next one.
TagsAreLevels(entries, level) ==
    \A i \in 1..Len(entries) :
        IsSynthetic(entries[i]) =>
            /\ entries[i].depth = level
            /\ TagsAreLevels(entries[i].properties, level + 1)

\* C29: in every get_properties result the depth tag of a synthetic entry is
\* its nesting level, 1 for a collection property of the root type, and no
\* tag exceeds MAX_RECURSION_DEPTH, also for a chain of seven types each
\* referencing the next.
C29_DepthTagWithinLimit ==
    (lastCall.op = "get_properties" /\ lastCall.raised = "none") =>
        /\ TagsAreLevels(lastCall.value, 1)
        /\ MaxDepthTag(lastCall.value) <= MAX_RECURSION_DEPTH


\* The referenced type name as C8 states it: the type has the form
\* Collection(<namespace>.<TypeName>_RowType) and TypeName is what is left of
\* the last dot-separated segment without its trailing _RowType.
SuffixRelatedType(type_str) ==
    IF Len(type_str) >= 2 /\ Head(type_str) = "Collection("
                          /\ type_str[Len(type_str)] = ")"
    THEN LET inner == LastSegment(SubSeq(type_str, 2, Len(type_str) - 1))
         IN  IF inner # <<>> /\ inner[Len(inner)] = "_RowType"
             THEN Some(SubSeq(inner, 1, Len(inner) - 1))
             ELSE None
    ELSE None

\* C8 as stated: a property is expanded exactly when its type has the form
\* Collection(<namespace>.<TypeName>_RowType) with TypeName a type with known
\* properties, TypeName being the inner name without its trailing _RowType
\* (and otherwise unaltered); in a get_properties result a synthetic entry
\* follows exactly these properties.
C8_RowTypeSuffixOnly ==
    /\ \A t \in DOMAIN self._entity_type_properties :
         \A p \in Range(self._entity_type_properties[t]) :
            LET claimed == SuffixRelatedType(p.type)
            IN  /\ IsExpanded(self._entity_type_properties, p.type)
                     <=> (Truthy(claimed)
                          /\ claimed.str \in DOMAIN self._entity_type_properties)
                /\ IsExpanded(self._entity_type_properties, p.type)
                     => _get_related_type(p.type) = claimed
    /\ (lastCall.op = "get_properties" /\ lastCall.raised = "none")
          => \A i \in 1..Len(lastCall.value) :
                ~IsSynthetic(lastCall.value[i]) =>
                    LET claimed == SuffixRelatedType(lastCall.value[i].type)
                    IN  (i < Len(lastCall.value)
                         /\ IsSynthetic(lastCall.value[i + 1]))
                        <=> (Truthy(claimed)
                             /\ claimed.str
                                  \in DOMAIN self._entity_type_properties)

\* C9: get_properties on a name that the loaded metadata does not declare
\* returns an empty list and raises nothing.
C9_UnknownTypeEmpty ==
    (/\ lastCall.op = "get_properties"
     /\ self._is_metadata_loaded
     /\ lastCall.arg \notin DeclaredEntityTypes(Docs[history.curDoc]))
    => /\ lastCall.raised = "none"
       /\ lastCall.value = <<>>

\* get_properties("UnknownType") and get_properties of a type that only
\* another document declares were answered from loaded metadata.
C9_Witness ==
    /\ lastCall.op = "get_properties"
    /\ self._is_metadata_loaded
    /\ lastCall.arg \in { UnknownType, Str("Order") }
    /\ lastCall.arg \notin DeclaredEntityTypes(Docs[history.curDoc])
    /\ lastCall.value = <<>>

\* An attribute that is present and not empty.
Named(attribute) == ~attribute.none /\ attribute.str # <<>>

\* The Name of every named EntitySet element, in document order.
ExpectedEntitySets(doc) ==
    LET named == SelectSeq(doc, LAMBDA e : e.tag = "EntitySet" /\ Named(e.Name))
    IN  [ i \in 1..Len(named) |-> named[i].Name.str ]

\* The Name of every named EntityType element, in document order.
ExpectedEntityTypes(doc) ==
    LET named == SelectSeq(doc, LAMBDA e : e.tag = "EntityType" /\ Named(e.Name))
    IN  [ i \in 1..Len(named) |-> named[i].Name.str ]

\* The {name, type} of every Property element of an EntityType element that
\* has both attributes, in document order.
ExpectedProperties(element) ==
    LET kept == SelectSeq(element.children,
                    LAMBDA c : c.tag = "Property" /\ Named(c.Name) /\ Named(c.Type))
    IN  [ i \in 1..Len(kept) |-> [name |-> kept[i].Name.str,
                                  type |-> kept[i].Type.str] ]

IsCollectionType(type_str) ==
    type_str # <<>> /\ Head(type_str) = "Collection("

\* C10: the loaded structures are the Names of the EntitySet elements and of
\* the EntityType elements in document order (unnamed ones skipped) and, per
\* named type, the {name, type} list of its Property elements (those lacking
\* Name or Type skipped); for a type without collection properties
\* get_properties returns exactly that list.
C10_ParseResult ==
    self._is_metadata_loaded =>
        LET doc == Docs[history.curDoc]
        IN  /\ self._entity_sets = ExpectedEntitySets(doc)
            /\ self._entity_types = ExpectedEntityTypes(doc)
            /\ DOMAIN self._entity_type_properties
                   = Range(ExpectedEntityTypes(doc))
            /\ \A j \in DOMAIN doc :
                  (doc[j].tag = "EntityType" /\ Named(doc[j].Name))
                  => /\ self._entity_type_properties[doc[j].Name.str]
                           = ExpectedProperties(doc[j])
                     /\ (/\ lastCall.op = "get_properties"
                         /\ lastCall.arg = doc[j].Name.str
                         /\ \A p \in Range(ExpectedProperties(doc[j])) :
                               ~IsCollectionType(p.type))
                        => /\ lastCall.raised = "none"
                           /\ lastCall.value = ExpectedProperties(doc[j])

\* The fixture document was loaded and get_properties("TestEntity") returned
\* [ID: Edm.Int32, Name: Edm.String].
C10_Witness ==
    /\ self._is_metadata_loaded
    /\ Docs[history.curDoc] = DocFixture
    /\ self._entity_sets = << Str("TestEntities") >>
    /\ self._entity_types = << Str("TestEntity") >>
    /\ lastCall.op = "get_properties"
    /\ lastCall.arg = Str("TestEntity")
    /\ lastCall.value = << [name |-> Str("ID"), type |-> EdmType("Int32")],
                           [name |-> Str("Name"), type |-> EdmType("String")] >>

\* ------------------------------------------- _check_response on its own

\* The output of a pure function that has not been applied yet.
Pending == [pending |-> TRUE]

\* The variables of the MetadataManager are not used.
NoManager ==
    /\ self = Unused
    /\ requests = Unused
    /\ lastCall = Unused
    /\ history = Unused

ExpectedStatuses == { HTTPStatus_OK, 201 }

\* Responses as the tests build them: any status, any reason, any body.
CheckedResponses ==
    { [failed |-> FALSE, status_code |-> s, reason |-> r, text |-> t] :
        s \in StatusCodes \cup ExpectedStatuses,
        r \in { ReasonPhrase(HTTPStatus_OK), ReasonPhrase(404) },
        t \in Texts }

InitCheckResponse ==
    /\ NoManager
    /\ callers = Unused
    /\ pool = Unused
    /\ qCall = Unused
    /\ input \in { [fn |-> "_check_response", response |-> r,
                    expected_status |-> e] :
                     r \in CheckedResponses, e \in ExpectedStatuses }
    /\ output = Pending
    /\ manager = Unused
    /\ mgrCall = Unused
    /\ heap = Unused
    /\ held = Unused

check_response_call ==
    /\ output = Pending
    /\ input.fn = "_check_response"
    /\ output' = _check_response(input.response, input.expected_status)
    /\ UNCHANGED << mmVars, concVars, qVars, mgrVars, heapVars, input >>

NextCheckResponse == check_response_call

SpecCheckResponse == InitCheckResponse /\ [][NextCheckResponse]_vars

\* C11: _check_response raises ODataResponseError exactly when the status of
\* the response differs from the expected status, and the error it raises is
\* given the status code, the reason phrase and the body of that response.
C11_CheckResponse ==
    (output # Pending /\ input.fn = "_check_response") =>
        /\ output.raised = (IF input.response.status_code # input.expected_status
                            THEN "ODataResponseError" ELSE "none")
        /\ output.raised = "ODataResponseError" =>
              /\ output.status_code = input.response.status_code
              /\ output.reason = input.response.reason
              /\ output.details = input.response.text

\* A 404 "Not Found" answer checked against 200 has raised the error.
C11_Witness ==
    /\ output # Pending
    /\ input.fn = "_check_response"
    /\ input.expected_status = HTTPStatus_OK
    /\ input.response.status_code = 404
    /\ input.response.reason = <<"Not", " ", "Found">>
    /\ output.raised = "ODataResponseError"
    /\ output.status_code = 404
    /\ output.details = input.response.text

\* ------------------------------------------------------------- no retry

\* C12: a load is never retried: one accessor call issues at most one request,
\* and a request that fails with a network error or a timeout surfaces as a
\* connection error after exactly one send attempt.
C12_NoRetry ==
    lastCall.op \in AccessorOps =>
        /\ lastCall.sent <= 1
        /\ lastCall.attempts <= 1
        /\ lastCall.answer = "connection_error" =>
              /\ lastCall.raised = "ODataConnectionError"
              /\ lastCall.sent = 1
              /\ lastCall.attempts = 1

\* An accessor whose only request failed has raised the connection error and
\* left the manager unloaded.
C12_Witness ==
    /\ lastCall.op \in AccessorOps
    /\ lastCall.answer = "connection_error"
    /\ lastCall.raised = "ODataConnectionError"
    /\ lastCall.sent = 1
    /\ lastCall.attempts = 1
    /\ ~self._is_metadata_loaded

\* ------------------------------------------- concurrent callers of a manager

\* Two threads call accessors of one MetadataManager.  A thread may be
\* switched between any two statements, so each statement of
\* _ensure_metadata_loaded and _load_and_parse_metadata that reads or writes
\* the manager is a step of its own; what a thread computes locally (the status
\* check, ET.fromstring, _parse_metadata_tree) joins the step before it.
Callers == { 1, 2 }

ConcResponses ==
    { r \in Responses :
        r.failed \/ (r.status_code = HTTPStatus_OK /\ r.text.xml
                     /\ r.text.doc \in { 1, 2 }) }

ConcArgs == { Str("TestEntity"), Str("Order") }

IdleCaller ==
    [pc |-> "idle", op |-> "none", arg |-> <<>>, observed |-> "none",
     sent |-> 0, doc |-> 0, raised |-> "none", value |-> <<>>]

\* Mutant: the flag is read a second time just before the fetch.
LoadsAfterCheck_Rechecked(observed, obj) ==
    observed = "unloaded" /\ ~obj._is_metadata_loaded

\* _ensure_metadata_loaded: the load runs on what the one test of the flag
\* saw; nothing reads the flag again or holds a lock between test and fetch.
LoadsAfterCheck(observed, obj) == observed = "unloaded"

InitConc ==
    /\ self = NewMetadataManager
    /\ requests = 0
    /\ lastCall = Unused
    /\ history = Unused
    /\ callers = [c \in Callers |-> IdleCaller]
    /\ pool = Unused
    /\ qCall = Unused
    /\ input = Unused
    /\ output = Unused
    /\ manager = Unused
    /\ mgrCall = Unused
    /\ heap = Unused
    /\ held = Unused

ConcFrame == UNCHANGED << lastCall, history, qVars, pureVars, mgrVars, heapVars >>

\* A thread enters an accessor.
conc_call(c) ==
    /\ callers[c].pc = "idle"
    /\ \E op \in AccessorOps :
       \E arg \in (IF op = "get_properties" THEN ConcArgs ELSE { <<>> }) :
          callers' = [callers EXCEPT ![c] =
                        [IdleCaller EXCEPT !.pc = "check", !.op = op,
                                           !.arg = arg]]
    /\ UNCHANGED << self, requests >>
    /\ ConcFrame

\* if not self._is_metadata_loaded
conc_check(c) ==
    /\ callers[c].pc = "check"
    /\ callers' = [callers EXCEPT
                     ![c].observed = IF self._is_metadata_loaded
                                     THEN "loaded" ELSE "unloaded",
                     ![c].pc = IF self._is_metadata_loaded
                               THEN "return" ELSE "fetch"]
    /\ UNCHANGED << self, requests >>
    /\ ConcFrame

\* _fetch_metadata_xml, ET.fromstring and _parse_metadata_tree.
conc_fetch(c) ==
    /\ callers[c].pc = "fetch"
    /\ IF LoadsAfterCheck(callers[c].observed, self)
       THEN /\ requests < MaxFetches
            /\ \E response \in ConcResponses :
                 LET fetched == _fetch_metadata_xml(response)
                     tree == ET_fromstring(fetched.text)
                     failure == IF fetched.raised # "none" THEN fetched.raised
                                ELSE tree.raised
                 IN  /\ requests' = requests + fetched.sent
                     /\ callers' = [callers EXCEPT
                          ![c].sent = fetched.sent,
                          ![c].raised = failure,
                          ![c].doc = IF failure = "none"
                                     THEN response.text.doc ELSE 0,
                          ![c].pc = IF failure = "none"
                                    THEN "store_sets" ELSE "idle"]
       ELSE /\ callers' = [callers EXCEPT ![c].pc = "return"]
            /\ UNCHANGED requests
    /\ UNCHANGED self
    /\ ConcFrame

\* self._entity_sets = entity_sets
conc_store_sets(c) ==
    /\ callers[c].pc = "store_sets"
    /\ self' = [self EXCEPT !._entity_sets =
                   _parse_metadata_tree(Docs[callers[c].doc]).entity_sets]
    /\ callers' = [callers EXCEPT ![c].pc = "store_types"]
    /\ UNCHANGED requests
    /\ ConcFrame

\* self._entity_types = entity_types
conc_store_types(c) ==
    /\ callers[c].pc = "store_types"
    /\ self' = [self EXCEPT !._entity_types =
                   _parse_metadata_tree(Docs[callers[c].doc]).entity_types]
    /\ callers' = [callers EXCEPT ![c].pc = "store_properties"]
    /\ UNCHANGED requests
    /\ ConcFrame

\* self._entity_type_properties = entity_type_properties
conc_store_properties(c) ==
    /\ callers[c].pc = "store_properties"
    /\ self' = [self EXCEPT !._entity_type_properties =
                   _parse_metadata_tree(Docs[callers[c].doc])
                       .entity_type_properties]
    /\ callers' = [callers EXCEPT ![c].pc = "set_flag"]
    /\ UNCHANGED requests
    /\ ConcFrame

\* self._is_metadata_loaded = True
conc_set_flag(c) ==
    /\ callers[c].pc = "set_flag"
    /\ self' = [self EXCEPT !._is_metadata_loaded = TRUE]
    /\ callers' = [callers EXCEPT ![c].pc = "return"]
    /\ UNCHANGED requests
    /\ ConcFrame

\* The accessor returns what the manager holds at this moment.
conc_return(c) ==
    /\ callers[c].pc = "return"
    /\ callers' = [callers EXCEPT
                     ![c].value = AccessorReturn(callers[c].op, self,
                                                 callers[c].arg).value,
                     ![c].pc = "idle"]
    /\ UNCHANGED << self, requests >>
    /\ ConcFrame

NextConc ==
    \E c \in Callers :
        \/ conc_call(c)
        \/ conc_check(c)
        \/ conc_fetch(c)
        \/ conc_store_sets(c)
        \/ conc_store_types(c)
        \/ conc_store_properties(c)
        \/ conc_set_flag(c)
        \/ conc_return(c)

SpecConc == InitConc /\ [][NextConc]_vars

\* C13: two callers of one unloaded manager can both see the flag false and
\* both fetch: a caller that saw the flag false in its test goes on to fetch
\* whatever the other caller has done since, so two fetches can serve one load.
C13_UnguardedLoad ==
    \A c \in Callers :
        (callers[c].observed = "unloaded"
         /\ callers[c].pc \notin { "check", "fetch" })
            => callers[c].sent = 1

\* Both callers saw the flag false, both have fetched, and neither has
\* returned yet: two requests went out for one load of a fresh manager.
C13_Witness ==
    /\ \A c \in Callers :
          /\ callers[c].observed = "unloaded"
          /\ callers[c].sent = 1
          /\ callers[c].raised = "none"
          /\ callers[c].pc \in { "store_sets", "store_types",
                                 "store_properties", "set_flag", "return" }
    /\ requests = 2

\* ------------------------------------------------- Q: values and lookups

\* A Python value used in a condition: its type, the lexemes of str(value)
\* and, for a list, its items.
PyStr(s) == [type |-> "str", str |-> <<s>>, items |-> <<>>]

PyInt(digits) == [type |-> "int", str |-> <<digits>>, items |-> <<>>]

PyBool(b) ==
    [type |-> "bool", str |-> IF b THEN <<"True">> ELSE <<"False">>,
     items |-> <<>>]

\* datetime(...): str() separates date and time by a space.
PyDatetime(date, time) ==
    [type |-> "datetime", str |-> <<date, " ", time>>, items |-> <<>>]

PyList(items) == [type |-> "list", str |-> <<>>, items |-> items]

\* str.lower() of the lexemes str(bool) yields.
Lower(s) ==
    [i \in 1..Len(s) |->
        CASE s[i] = "True" -> "true"
          [] s[i] = "False" -> "false"
          [] OTHER -> s[i]]

\* datetime.isoformat(): date and time separated by "T".
isoformat(value) ==
    [i \in 1..Len(value.str) |->
        IF value.str[i] = " " THEN "T" ELSE value.str[i]]

\* The module-level table of literal renderings, by exact type.
type_repr(value) ==
    CASE value.type = "bool" -> Lower(value.str)
      [] value.type = "str" -> <<"'">> \o value.str \o <<"'">>
      [] value.type = "datetime" ->
           <<"datetime", "'">> \o isoformat(value) \o <<"'">>

TypeReprTypes == { "bool", "str", "datetime" }

Q_AND == "and"

Q_OR == "or"

Q_NOT == "not"

_OPERATORS ==
    { <<"eq">>, <<"ne">>, <<"gt">>, <<"ge">>, <<"lt">>, <<"le">>, <<"in">> }

_DEFAULT_OPERATOR == <<"eq">>

_ANNOTATIONS == { <<"guid">>, <<"datetime">> }

RECURSIVE SplitFrom(_, _, _, _, _)
\* The parts of s[i..] between occurrences of sep, after the parts in acc and
\* the part begun in cur.
SplitFrom(s, sep, i, cur, acc) ==
    IF i > Len(s) THEN Append(acc, cur)
    ELSE IF s[i] = sep THEN SplitFrom(s, sep, i + 1, <<>>, Append(acc, cur))
    ELSE SplitFrom(s, sep, i + 1, Append(cur, s[i]), acc)

\* key.split("__")
Split(s, sep) == SplitFrom(s, sep, 1, <<>>, <<>>)

\* A keyword of the constructor: segments joined by "__".
Key1(field) == <<field>>

Key2(field, second) == <<field, "__", second>>

Key3(field, second, third) == <<field, "__", second, "__", third>>

\* A condition as the constructor stores it: the tuple (key, value).
Lookup(key, value) == [key |-> key, value |-> value]

\* _format_value: an annotation of the known set wraps str(value); otherwise
\* the literal rendering of the value's type, or str(value).
_format_value(value, annotation) ==
    IF Truthy(annotation) /\ annotation.str \in _ANNOTATIONS
    THEN annotation.str \o <<"'">> \o value.str \o <<"'">>
    ELSE IF value.type \in TypeReprTypes
         THEN type_repr(value)
         ELSE value.str

RECURSIVE Join(_, _, _)
\* sep.join(exprs[i..])
Join(exprs, sep, i) ==
    IF i > Len(exprs) THEN <<>>
    ELSE IF i = Len(exprs) THEN exprs[i]
    ELSE exprs[i] \o sep \o Join(exprs, sep, i + 1)

\* _in_lookup: one eq clause per value, joined by " or ".
_in_lookup(field, values, annotation) ==
    Join([i \in 1..Len(values.items) |->
             field \o <<" ", "eq", " ">>
                   \o _format_value(values.items[i], annotation)],
         <<" ", "or", " ">>, 1)

\* Mutant: the operator is not checked against _OPERATORS.
_build_lookup_NoOperatorCheck(lookup, field_mapping) ==
    LET parts == Split(lookup.key, "__")
        field == parts[1]
        operator == IF Len(parts) > 1 THEN parts[2] ELSE _DEFAULT_OPERATOR
        annotation == IF Len(parts) > 2 THEN Some(parts[3]) ELSE None
        mapped == IF field \in DOMAIN field_mapping
                  THEN field_mapping[field] ELSE field
    IN  IF operator = <<"in">>
        THEN [raised |-> "none",
              text |-> _in_lookup(mapped, lookup.value, annotation)]
        ELSE [raised |-> "none",
              text |-> mapped \o <<" ">> \o operator \o <<" ">>
                              \o _format_value(lookup.value, annotation)]

\* _build_lookup: the condition string of one (key, value), or ValueError
\* for an operator outside _OPERATORS.
_build_lookup(lookup, field_mapping) ==
    LET parts == Split(lookup.key, "__")
        field == parts[1]
        operator == IF Len(parts) > 1 THEN parts[2] ELSE _DEFAULT_OPERATOR
        annotation == IF Len(parts) > 2 THEN Some(parts[3]) ELSE None
        mapped == IF field \in DOMAIN field_mapping
                  THEN field_mapping[field] ELSE field
    IN  IF operator \notin _OPERATORS
        THEN [raised |-> "ValueError", text |-> <<>>]
        ELSE IF operator = <<"in">>
        THEN [raised |-> "none",
              text |-> _in_lookup(mapped, lookup.value, annotation)]
        ELSE [raised |-> "none",
              text |-> mapped \o <<" ">> \o operator \o <<" ">>
                              \o _format_value(lookup.value, annotation)]

\* ------------------------------------------------------------ Q: nodes

\* A Q object: children (lookups and Q objects), connector, negated.
Node(children, connector, negated) ==
    [children |-> children, connector |-> connector, negated |-> negated]

\* isinstance(x, Q)
IsQ(x) == "children" \in DOMAIN x

\* An object that is not a Q, passed where a Q is expected.
NonQ == [type |-> "str", str |-> <<"x">>, items |-> <<>>]

\* No object: what a call that raised has produced.
NoQ == [absent |-> TRUE]

RECURSIVE Q__init__(_, _)
RECURSIVE create(_, _, _)
RECURSIVE KwargsLoop(_, _, _)
RECURSIVE ArgsLoop(_, _, _)

\* The loop over kwargs.items() from item i on: an in lookup goes into a
\* sub-node made by create, any other lookup is appended as it is.
KwargsLoop(kwargs, i, children) ==
    IF i > Len(kwargs) THEN [raised |-> "none", children |-> children]
    ELSE LET parts == Split(kwargs[i].key, "__")
             operator == IF Len(parts) > 1 THEN parts[2]
                         ELSE _DEFAULT_OPERATOR
             sub == create(<< kwargs[i] >>, Q_OR, FALSE)
         IN  IF operator = <<"in">>
             THEN IF sub.raised # "none"
                  THEN [raised |-> sub.raised, children |-> children]
                  ELSE KwargsLoop(kwargs, i + 1, Append(children, sub.node))
             ELSE KwargsLoop(kwargs, i + 1, Append(children, kwargs[i]))

\* The loop over args from argument i on.
ArgsLoop(args, i, children) ==
    IF i > Len(args) THEN [raised |-> "none", children |-> children]
    ELSE IF ~IsQ(args[i])
         THEN [raised |-> "TypeError", children |-> children]
         ELSE ArgsLoop(args, i + 1, Append(children, args[i]))

\* Mutant: a call without arguments is accepted.
Q__init___AcceptsEmpty(args, kwargs) ==
    LET fromKwargs == KwargsLoop(kwargs, 1, <<>>)
        fromArgs == ArgsLoop(args, 1, fromKwargs.children)
    IN  IF fromKwargs.raised # "none"
        THEN [raised |-> fromKwargs.raised, node |-> NoQ]
        ELSE IF fromArgs.raised # "none"
        THEN [raised |-> fromArgs.raised, node |-> NoQ]
        ELSE [raised |-> "none",
              node |-> Node(fromArgs.children, Q_AND, FALSE)]

\* Q(*args, **kwargs): kwargs is the sequence of (key, value) items.
Q__init__(args, kwargs) ==
    IF args = <<>> /\ kwargs = <<>>
    THEN [raised |-> "ValueError", node |-> NoQ]
    ELSE LET fromKwargs == KwargsLoop(kwargs, 1, <<>>)
             fromArgs == ArgsLoop(args, 1, fromKwargs.children)
         IN  IF fromKwargs.raised # "none"
             THEN [raised |-> fromKwargs.raised, node |-> NoQ]
             ELSE IF fromArgs.raised # "none"
             THEN [raised |-> fromArgs.raised, node |-> NoQ]
             ELSE [raised |-> "none",
                   node |-> Node(fromArgs.children, Q_AND, FALSE)]

\* Q.create(children, connector, negated): obj = cls() runs the constructor
\* without arguments; its attributes are assigned afterwards.  connector is
\* "None" when the argument is left out.
create(children, connector, negated) ==
    LET obj == Q__init__(<<>>, <<>>)
    IN  IF obj.raised # "none"
        THEN obj
        ELSE [raised |-> "none",
              node |-> Node(children,
                            IF connector = "None" THEN Q_AND ELSE connector,
                            negated)]

\* copy(): create with the attributes of self.
copy(self_) == create(self_.children, self_.connector, self_.negated)

\* Mutant: other is appended to the children of self before the new node is
\* made.
combine_InPlace(self_, other, connector) ==
    LET obj == create(<<>>, connector, FALSE)
        grown == [self_ EXCEPT !.children = Append(@, other)]
    IN  IF ~IsQ(other)
        THEN [raised |-> "TypeError", node |-> NoQ, self_after |-> self_]
        ELSE IF obj.raised # "none"
        THEN [raised |-> obj.raised, node |-> NoQ, self_after |-> grown]
        ELSE [raised |-> "none", node |-> grown, self_after |-> grown]

\* combine(other, connector): a node made by create whose children become
\* [self, other].  self_after is self as the call leaves it.
combine(self_, other, connector) ==
    LET obj == create(<<>>, connector, FALSE)
    IN  IF ~IsQ(other)
        THEN [raised |-> "TypeError", node |-> NoQ, self_after |-> self_]
        ELSE IF obj.raised # "none"
        THEN [raised |-> obj.raised, node |-> NoQ, self_after |-> self_]
        ELSE [raised |-> "none",
              node |-> [obj.node EXCEPT !.children = << self_, other >>],
              self_after |-> self_]

__and__(self_, other) == combine(self_, other, Q_AND)

__or__(self_, other) == combine(self_, other, Q_OR)

\* ~self: a copy whose negated flag is the opposite of self's.
__invert__(self_) ==
    LET obj == copy(self_)
    IN  IF obj.raised # "none"
        THEN [raised |-> obj.raised, node |-> NoQ, self_after |-> self_]
        ELSE [raised |-> "none",
              node |-> [obj.node EXCEPT !.negated = ~self_.negated],
              self_after |-> self_]

RECURSIVE build_expression(_, _)
RECURSIVE ExpressionsOf(_, _, _, _)

\* Mutant: the mapping is not handed down to a child Q.
ExpressionsOf_MappingNotPassed(children, field_mapping, i, expressions) ==
    IF i > Len(children) THEN [raised |-> "none", expressions |-> expressions]
    ELSE LET child == children[i]
             built == IF IsQ(child)
                      THEN build_expression(child, EmptyDict)
                      ELSE _build_lookup(child, field_mapping)
             expr == IF IsQ(child) /\ child.negated
                     THEN << Q_NOT, " ", "(" >> \o built.text \o << ")" >>
                     ELSE built.text
         IN  IF built.raised # "none"
             THEN [raised |-> built.raised, expressions |-> expressions]
             ELSE ExpressionsOf(children, field_mapping, i + 1,
                                Append(expressions, expr))

\* The loop of build_expression over self.children from child i on: a Q child
\* is built recursively and wrapped in "not (...)" when it is negated.
ExpressionsOf(children, field_mapping, i, expressions) ==
    IF i > Len(children) THEN [raised |-> "none", expressions |-> expressions]
    ELSE LET child == children[i]
             built == IF IsQ(child)
                      THEN build_expression(child, field_mapping)
                      ELSE _build_lookup(child, field_mapping)
             expr == IF IsQ(child) /\ child.negated
                     THEN << Q_NOT, " ", "(" >> \o built.text \o << ")" >>
                     ELSE built.text
         IN  IF built.raised # "none"
             THEN [raised |-> built.raised, expressions |-> expressions]
             ELSE ExpressionsOf(children, field_mapping, i + 1,
                                Append(expressions, expr))

\* build_expression(field_mapping): the children's expressions joined by
\* " <connector> ", wrapped in "not (...)" when self is negated.
build_expression(self_, field_mapping) ==
    LET built == ExpressionsOf(self_.children, field_mapping, 1, <<>>)
        expression == Join(built.expressions,
                           << " ", self_.connector, " " >>, 1)
    IN  IF built.raised # "none"
        THEN [raised |-> built.raised, text |-> <<>>]
        ELSE [raised |-> "none",
              text |-> IF self_.negated
                       THEN << Q_NOT, " ", "(" >> \o expression \o << ")" >>
                       ELSE expression]

\* str(q)
__str__(self_) == build_expression(self_, EmptyDict)

\* --------------------------------------------------- Q: the objects in use

\* Number of Q objects a behaviour holds.
MaxNodes == 2

CodeList == PyList(<< PyStr("A"), PyStr("B"), PyStr("C") >>)

\* The keyword arguments the constructor is called with.
QKwargs ==
    { <<>>,
      << Lookup(Key1("a"), PyInt("1")) >>,
      << Lookup(Key1("Name"), PyStr("Ivanov")) >>,
      << Lookup(Key2("Age", "gt"), PyInt("30")) >>,
      << Lookup(Key2("a", "like"), PyInt("1")) >>,
      << Lookup(Key2("code", "in"), CodeList) >>,
      << Lookup(Key1("a"), PyInt("1")), Lookup(Key1("b"), PyStr("x")) >>,
      << Lookup(Key1("a"), PyInt("1")), Lookup(Key2("code", "in"), CodeList) >> }

\* The positional arguments: objects the program holds, or one that is no Q.
QArgs ==
    { <<>>, << NonQ >> }
    \cup { << pool[i] >> : i \in 1..Len(pool) }
    \cup { << pool[i], pool[j] >> : i, j \in 1..Len(pool) }
    \cup { << pool[i], NonQ >> : i \in 1..Len(pool) }

\* The record of a call: op, its arguments (kwargs and args of the constructor,
\* positions a and b in the pool of the operands, b = 0 for no Q), what it
\* raised, the node or the text it returned, and reused: an operand of this
\* composition was the operand of an earlier one.
NoQCall ==
    [op |-> "none", kwargs |-> <<>>, args |-> <<>>, a |-> 0, b |-> 0,
     raised |-> "none", node |-> NoQ, text |-> <<>>, reused |-> FALSE,
     composed |-> {}]

InitQ ==
    /\ NoManager
    /\ callers = Unused
    /\ pool = <<>>
    /\ qCall = NoQCall
    /\ input = Unused
    /\ output = Unused
    /\ manager = Unused
    /\ mgrCall = Unused
    /\ heap = Unused
    /\ held = Unused

QFrame == UNCHANGED << mmVars, concVars, pureVars, mgrVars, heapVars >>

\* The pool after a call that returned node (or raised).
Kept(objects, raised, node) ==
    IF raised = "none" THEN Append(objects, node) ELSE objects

\* q = Q(*args, **kwargs)
q_construct ==
    /\ Len(pool) < MaxNodes
    /\ \E kwargs \in QKwargs : \E args \in QArgs :
         LET made == Q__init__(args, kwargs)
         IN  /\ pool' = Kept(pool, made.raised, made.node)
             /\ qCall' = [NoQCall EXCEPT !.op = "Q", !.kwargs = kwargs,
                                         !.args = args,
                                         !.raised = made.raised,
                                         !.node = made.node,
                                         !.composed = qCall.composed]
    /\ QFrame

\* One of a & b, a | b on held objects a and b, b possibly no Q.
Composition(op, a, other, b) ==
    LET made == IF op = "&" THEN __and__(pool[a], other)
                ELSE __or__(pool[a], other)
        left == [pool EXCEPT ![a] = made.self_after]
    IN  /\ made.raised = "none" => Len(pool) < MaxNodes
        /\ pool' = Kept(left, made.raised, made.node)
        /\ qCall' = [NoQCall EXCEPT !.op = op, !.a = a, !.b = b,
                                    !.args = << other >>,
                                    !.raised = made.raised,
                                    !.node = made.node,
                                    !.reused =
                                        {a, b} \cap qCall.composed # {},
                                    !.composed =
                                        qCall.composed \cup ({a, b} \ {0})]
        /\ QFrame

\* c = a & b
q_and ==
    \E a \in 1..Len(pool) :
        \/ \E b \in 1..Len(pool) : Composition("&", a, pool[b], b)
        \/ Composition("&", a, NonQ, 0)

\* c = a | b
q_or ==
    \E a \in 1..Len(pool) :
        \/ \E b \in 1..Len(pool) : Composition("|", a, pool[b], b)
        \/ Composition("|", a, NonQ, 0)

\* c = ~a
q_invert ==
    \E a \in 1..Len(pool) :
        LET made == __invert__(pool[a])
        IN  /\ made.raised = "none" => Len(pool) < MaxNodes
            /\ pool' = Kept([pool EXCEPT ![a] = made.self_after],
                            made.raised, made.node)
            /\ qCall' = [NoQCall EXCEPT !.op = "~", !.a = a,
                                        !.raised = made.raised,
                                        !.node = made.node,
                                        !.reused = a \in qCall.composed,
                                        !.composed = qCall.composed \cup {a}]
            /\ QFrame

\* str(a)
q_str ==
    \E a \in 1..Len(pool) :
        LET built == __str__(pool[a])
        IN  /\ pool' = pool
            /\ qCall' = [NoQCall EXCEPT !.op = "str", !.a = a,
                                        !.raised = built.raised,
                                        !.text = built.text,
                                        !.composed = qCall.composed]
            /\ QFrame

NextQ ==
    \/ q_construct
    \/ q_and
    \/ q_or
    \/ q_invert
    \/ q_str

SpecQ == InitQ /\ [][NextQ]_vars

\* ------------------------------------------------ Q: construction, & | ~

InKwargs == << Lookup(Key2("code", "in"), CodeList) >>

InExpression ==
    << "code", " ", "eq", " ", "'", "A", "'", " ", "or", " ",
       "code", " ", "eq", " ", "'", "B", "'", " ", "or", " ",
       "code", " ", "eq", " ", "'", "C", "'" >>

\* C14: Q(code__in=['A', 'B', 'C']) is constructed, holds the lookup in an
\* OR-connected sub-node of its own, and renders to one eq clause per element
\* joined by or, in list order.
C14_InLookup ==
    (qCall.op = "Q" /\ qCall.kwargs = InKwargs /\ qCall.args = <<>>) =>
        /\ qCall.raised = "none"
        /\ qCall.node.children = << Node(InKwargs, Q_OR, FALSE) >>
        /\ __str__(qCall.node) = [raised |-> "none", text |-> InExpression]

\* C15: a & b and a | b on two Q nodes return, without raising, a new node
\* with children [a, b], connector and (or) and negated false.
C15_CombineReturns ==
    (qCall.op \in { "&", "|" } /\ qCall.b # 0) =>
        /\ qCall.raised = "none"
        /\ qCall.node.children = << pool[qCall.a], pool[qCall.b] >>
        /\ qCall.node.connector = (IF qCall.op = "&" THEN Q_AND ELSE Q_OR)
        /\ ~qCall.node.negated

InvertTwice(q) ==
    LET once == __invert__(q)
    IN  IF once.raised # "none" THEN once ELSE __invert__(once.node)

\* C17: for every Q node q, ~~q has the negated flag, the connector and the
\* children of q and renders to the same string.
C17_DoubleNegation ==
    qCall.op = "~" =>
        LET q == pool[qCall.a]
            twice == InvertTwice(q)
        IN  /\ twice.raised = "none"
            /\ twice.node.negated = q.negated
            /\ twice.node.connector = q.connector
            /\ twice.node.children = q.children
            /\ __str__(twice.node) = __str__(q)

\* ------------------------------------------- build_expression on its own

\* The trees build_expression is applied to are those the constructor, & | and
\* ~ are specified to build; children, connector and negated are plain
\* attributes and build_expression reads nothing else of a Q.
Negated(q) == [q EXCEPT !.negated = TRUE]

\* Q(key=value)
Condition(key, value) == Q__init__(<<>>, << Lookup(key, value) >>).node

ComparisonOperators == _OPERATORS \ { <<"in">> }

\* The keys of the grammar field[__operator][__annotation] for one field.
GrammarKeys(field) ==
    { Key1(field) }
    \cup { Key2(field, op[1]) : op \in ComparisonOperators }
    \cup { Key3(field, op[1], ann[1]) :
             op \in ComparisonOperators, ann \in _ANNOTATIONS }
    \cup { Key2(field, ann[1]) : ann \in _ANNOTATIONS }

ConditionValues ==
    { PyInt("1"), PyStr("abc"), PyBool(TRUE),
      PyDatetime("2024-12-07", "10:00:00") }

\* Single conditions: every key of the grammar, one key with an operator
\* outside _OPERATORS, and an in lookup as _build_lookup receives it.
SingleConditions ==
    { Condition(key, value) :
        key \in GrammarKeys("ref") \cup { Key2("ref", "like") },
        value \in ConditionValues }
    \cup { Node(InKwargs, Q_AND, FALSE), Node(InKwargs, Q_OR, FALSE) }

Leaves ==
    { Condition(Key1("Name"), PyStr("Ivanov")),
      Condition(Key2("Age", "gt"), PyInt("30")),
      Condition(Key2("Age", "lt"), PyInt("10")),
      Condition(Key1("a"), PyInt("1")),
      Condition(Key1("b"), PyInt("2")) }

Connectors == { Q_AND, Q_OR }

\* Nodes of two children, each a condition node, negated or not.
Pairs ==
    { Node(<< x, y >>, c, n) :
        x \in Leaves \cup { Negated(l) : l \in Leaves }, y \in Leaves,
        c \in Connectors, n \in BOOLEAN }
    \cup { Node(<< x, Negated(y) >>, c, n) :
        x \in Leaves, y \in Leaves, c \in Connectors, n \in BOOLEAN }

AgePair(connector, negated) ==
    Node(<< Condition(Key2("Age", "gt"), PyInt("30")),
            Condition(Key2("Age", "lt"), PyInt("10")) >>, connector, negated)

\* Nodes with a condition and a two-child sub-node below them.
Nested ==
    { Node(<< x, AgePair(c2, n2) >>, c1, n1) :
        x \in { Condition(Key1("Name"), PyStr("Ivanov")),
                Condition(Key1("a"), PyInt("1")) },
        c1 \in Connectors, c2 \in Connectors,
        n1 \in BOOLEAN, n2 \in BOOLEAN }

RenderTrees == SingleConditions \cup Pairs \cup Nested

FieldMappings ==
    { EmptyDict,
      DictSet(DictSet(DictSet(EmptyDict, <<"ref">>, <<"Ref_Key">>),
                      <<"Name">>, <<"Description">>),
              <<"Age">>, <<"Age_Years">>) }

InitRender ==
    /\ NoManager
    /\ callers = Unused
    /\ pool = Unused
    /\ qCall = Unused
    /\ input \in { [fn |-> "build_expression", tree |-> t,
                    field_mapping |-> fm] :
                     t \in RenderTrees, fm \in FieldMappings }
    /\ output = Pending
    /\ manager = Unused
    /\ mgrCall = Unused
    /\ heap = Unused
    /\ held = Unused

build_expression_call ==
    /\ output = Pending
    /\ input.fn = "build_expression"
    /\ output' = build_expression(input.tree, input.field_mapping)
    /\ UNCHANGED << mmVars, concVars, qVars, mgrVars, heapVars, input >>

NextRender == build_expression_call

SpecRender == InitRender /\ [][NextRender]_vars

Rendered == output # Pending /\ input.fn = "build_expression"

\* Q(Name='Ivanov') & (Q(Age__gt=30) | Q(Age__lt=10))
GroupedTree ==
    Node(<< Condition(Key1("Name"), PyStr("Ivanov")), AgePair(Q_OR, FALSE) >>,
         Q_AND, FALSE)

GroupedExpression ==
    << "Name", " ", "eq", " ", "'", "Ivanov", "'", " ", "and", " ", "(",
       "Age", " ", "gt", " ", "30", " ", "or", " ", "Age", " ", "lt", " ", "10",
       ")" >>

\* A non-negated node whose second child is a non-negated sub-node of two
\* children with the other connector.
IsGrouped(t) ==
    /\ t \in Nested
    /\ ~t.negated
    /\ ~t.children[2].negated
    /\ t.children[2].connector # t.connector

\* C18: a nested non-negated sub-node whose connector differs from its
\* parent's is rendered in parentheses; Q(Name='Ivanov') & (Q(Age__gt=30) |
\* Q(Age__lt=10)) renders "Name eq 'Ivanov' and (Age gt 30 or Age lt 10)".
C18_SubExpressionParenthesized ==
    (Rendered /\ IsGrouped(input.tree)) =>
        /\ output.raised = "none"
        /\ output.text =
             build_expression(input.tree.children[1], input.field_mapping).text
             \o << " ", input.tree.connector, " ", "(" >>
             \o build_expression(input.tree.children[2],
                                 input.field_mapping).text
             \o << ")" >>
        /\ (input.tree = GroupedTree /\ input.field_mapping = EmptyDict)
              => output.text = GroupedExpression

\* The condition string of a node that holds one condition.
ConditionText(q, field_mapping) ==
    _build_lookup(q.children[1], field_mapping).text

\* What one child contributes when a negated node is wrapped exactly once.
WrappedOnce(q, field_mapping) ==
    IF q.negated
    THEN << "not", " ", "(" >> \o ConditionText(q, field_mapping) \o << ")" >>
    ELSE ConditionText(q, field_mapping)

\* C19: a negated node contributes exactly one "not (...)" around its joined
\* expression, as the root and as a child: children [Q(a=1), negated Q(b=2)]
\* under and render "a eq 1 and not (b eq 2)".
C19_SingleNotWrapper ==
    (Rendered /\ input.tree \in Pairs) =>
        LET t == input.tree
            joined == WrappedOnce(t.children[1], input.field_mapping)
                      \o << " ", t.connector, " " >>
                      \o WrappedOnce(t.children[2], input.field_mapping)
        IN  /\ output.raised = "none"
            /\ output.text = IF t.negated
                             THEN << "not", " ", "(" >> \o joined \o << ")" >>
                             ELSE joined
            /\ t = Node(<< Condition(Key1("a"), PyInt("1")),
                           Negated(Condition(Key1("b"), PyInt("2"))) >>,
                        Q_AND, FALSE)
                 => output.text = << "a", " ", "eq", " ", "1", " ", "and", " ",
                                     "not", " ", "(", "b", " ", "eq", " ", "2",
                                     ")" >>

\* The keys of the grammar with the operator and annotation each one means.
GrammarCases(field) ==
    { [key |-> Key1(field), operator |-> <<"eq">>, annotation |-> None] }
    \cup { [key |-> Key2(field, op[1]), operator |-> op, annotation |-> None] :
             op \in ComparisonOperators }
    \cup { [key |-> Key3(field, op[1], ann[1]), operator |-> op,
            annotation |-> Some(ann)] :
             op \in ComparisonOperators, ann \in _ANNOTATIONS }
    \cup { [key |-> Key2(field, ann[1]), operator |-> <<"eq">>,
            annotation |-> Some(ann)] : ann \in _ANNOTATIONS }

\* C20: for every key field, field__op, field__op__annotation and
\* field__annotation (op in eq ne gt ge lt le, annotation in guid datetime)
\* the single condition renders, to "<field> <op> <value>" with eq for an
\* omitted operator.
C20_GrammarKeysRender ==
    Rendered =>
        \A g \in GrammarCases("ref") : \A value \in ConditionValues :
            input.tree = Condition(g.key, value) =>
                /\ output.raised = "none"
                /\ output.text =
                     (IF <<"ref">> \in DOMAIN input.field_mapping
                      THEN input.field_mapping[<<"ref">>] ELSE <<"ref">>)
                     \o << " " >> \o g.operator \o << " " >>
                     \o _format_value(value, g.annotation)

\* ------------------------------------------------ Q: unsupported operators

\* The operator segment of a key, eq when the key has one segment.
OperatorOf(key) ==
    LET parts == Split(key, "__")
    IN  IF Len(parts) > 1 THEN parts[2] ELSE _DEFAULT_OPERATOR

RECURSIVE HasUnsupported(_)
\* The tree holds, at some depth, a lookup whose operator is not supported.
HasUnsupported(q) ==
    \E i \in 1..Len(q.children) :
        IF IsQ(q.children[i]) THEN HasUnsupported(q.children[i])
        ELSE OperatorOf(q.children[i].key) \notin _OPERATORS

RECURSIVE Depth(_)
\* Number of Q nodes on the longest path from q down to a lookup.
Depth(q) ==
    LET below == { IF IsQ(q.children[i]) THEN Depth(q.children[i]) ELSE 0 :
                     i \in 1..Len(q.children) }
    IN  1 + (CHOOSE d \in below \cup {0} : \A e \in below \cup {0} : d >= e)

UnsupportedKwargs == << Lookup(Key2("a", "like"), PyInt("1")) >>

\* C21: the constructor accepts a lookup with an unsupported operator and
\* stores it as a child; the error comes only from rendering, and every
\* rendering of a tree that holds such a lookup at any depth raises it.
C21_UnsupportedOperatorAtRender ==
    /\ (qCall.op = "Q" /\ qCall.kwargs = UnsupportedKwargs
        /\ \A i \in 1..Len(qCall.args) : IsQ(qCall.args[i])) =>
          /\ qCall.raised = "none"
          /\ qCall.node.children[1] = UnsupportedKwargs[1]
    /\ qCall.op = "str" =>
          (qCall.raised = "ValueError" <=> HasUnsupported(pool[qCall.a]))
    /\ \A i \in 1..Len(pool) :
          HasUnsupported(pool[i]) => __str__(pool[i]).raised = "ValueError"

\* A node that holds the unsupported lookup one level down, inside a child Q
\* that was constructed without error, has been rendered and raised.
C21_Witness ==
    /\ qCall.op = "str"
    /\ qCall.raised = "ValueError"
    /\ Depth(pool[qCall.a]) = 2
    /\ Len(pool[qCall.a].children) = 2
    /\ ~IsQ(pool[qCall.a].children[1])
    /\ OperatorOf(pool[qCall.a].children[1].key) \in _OPERATORS
    /\ pool[qCall.a].children[2] = Node(UnsupportedKwargs, Q_AND, FALSE)

\* ------------------------------------------------------ Q: no empty node

RECURSIVE NoEmptyNode(_)
\* q and every Q below it has at least one child.
NoEmptyNode(q) ==
    /\ Len(q.children) >= 1
    /\ \A i \in 1..Len(q.children) :
          IsQ(q.children[i]) => NoEmptyNode(q.children[i])

\* The keyword arguments hold an in lookup.
HasInLookup(kwargs) ==
    \E i \in 1..Len(kwargs) : OperatorOf(kwargs[i].key) = <<"in">>

RenamedKey(key, field_mapping) ==
    LET field == Split(key, "__")[1]
    IN  IF field \in DOMAIN field_mapping
        THEN field_mapping[field] \o SubSeq(key, Len(field) + 1, Len(key))
        ELSE key

RECURSIVE Renamed(_, _)
\* The tree with the field of every lookup, at every depth, renamed.
Renamed(q, field_mapping) ==
    [q EXCEPT !.children =
        [i \in 1..Len(q.children) |->
            IF IsQ(q.children[i]) THEN Renamed(q.children[i], field_mapping)
            ELSE Lookup(RenamedKey(q.children[i].key, field_mapping),
                        q.children[i].value)]]

\* C23: with a field_mapping every condition at every depth renders its field
\* as field_mapping[field] when the field is a key of the mapping and as the
\* field itself otherwise, and nothing else of the rendering depends on the
\* mapping: the result is that of the tree with the fields renamed, rendered
\* without a mapping.
C23_FieldMappingEveryDepth ==
    Rendered =>
        output = build_expression(Renamed(input.tree, input.field_mapping),
                                  EmptyDict)

\* Name is renamed one level below the root and Age two levels below it.
C23_Witness ==
    /\ Rendered
    /\ input.tree = GroupedTree
    /\ <<"Age">> \in DOMAIN input.field_mapping
    /\ output.text =
         << "Description", " ", "eq", " ", "'", "Ivanov", "'", " ", "and", " ",
            "Age_Years", " ", "gt", " ", "30", " ", "or", " ",
            "Age_Years", " ", "lt", " ", "10" >>

\* ---------------------------------------------------- Q: value formatting

\* The literal the formatting table gives a value: an annotated value is
\* annotation'<value>' with the ISO form for a datetime; otherwise a bool is
\* lowercase, a str is quoted, a datetime is datetime'<ISO form>', and any
\* other value is str(value).
TableLiteral(value, annotation) ==
    IF ~annotation.none
    THEN annotation.str \o <<"'">>
         \o (IF value.type = "datetime" THEN isoformat(value) ELSE value.str)
         \o <<"'">>
    ELSE CASE value.type = "bool" -> Lower(value.str)
           [] value.type = "str" -> <<"'">> \o value.str \o <<"'">>
           [] value.type = "datetime" ->
                <<"datetime", "'">> \o isoformat(value) \o <<"'">>
           [] OTHER -> value.str

\* C24: every value is formatted by the fixed table: bool as lowercase
\* true/false, str in single quotes, a value under a guid or datetime
\* annotation as annotation'<value>' with the ISO form for a datetime value
\* (datetime'2024-12-07T10:00:00'), any other type as str(value).
C24_ValueFormatting ==
    Rendered =>
        \A g \in { h \in GrammarCases("ref") :
                      h.annotation.none \/ Len(Split(h.key, "__")) = 3 } :
        \A value \in ConditionValues :
            (input.tree = Condition(g.key, value)
             /\ input.field_mapping = EmptyDict) =>
                /\ output.raised = "none"
                /\ output.text = << "ref", " " >> \o g.operator \o << " " >>
                                 \o TableLiteral(value, g.annotation)

\* ------------------------------------------------------- query managers

\* ODataManager (manager.py) and EntityManager (entity_manager.py) hold a
\* stored filter (a Q or None) and the list validation_errors.  The remaining
\* query options (expand, top, skip, select) take no part in what follows.
ManagerKinds == { "ODataManager", "EntityManager" }

\* __init__ of either class.
NewManager(kind) ==
    [kind |-> kind, _filter |-> NoQ, validation_errors |-> <<>>]

\* An item of the response list: valid means entity_model.model_validate
\* accepts it.
Item(id, valid) == [id |-> id, valid |-> valid]

\* entity_model.model_validate(item): the model object, or the error raised;
\* call tells the errors of one all() call from those of another.
model_validate(item, call) ==
    IF item.valid
    THEN [raised |-> "none", obj |-> [model |-> item.id],
          error |-> [item |-> item.id, call |-> call]]
    ELSE [raised |-> "ValidationError", obj |-> None,
          error |-> [item |-> item.id, call |-> call]]

RECURSIVE ODataManager_validate_loop(_, _, _, _, _, _)
\* The for loop of ODataManager._validate_data from item i on.
ODataManager_validate_loop(data, ignore_invalid, call, i, valid_objects, errors) ==
    IF i > Len(data)
    THEN [raised |-> "none", value |-> valid_objects, errors |-> errors]
    ELSE LET validated == model_validate(data[i], call)
         IN  IF validated.raised = "none"
             THEN ODataManager_validate_loop(data, ignore_invalid, call, i + 1,
                      Append(valid_objects, validated.obj), errors)
             ELSE IF ~ignore_invalid
             THEN [raised |-> validated.raised, value |-> <<>>,
                   errors |-> Append(errors, validated.error)]
             ELSE ODataManager_validate_loop(data, ignore_invalid, call, i + 1,
                      valid_objects, Append(errors, validated.error))

\* ODataManager._validate_data: errors are appended to the list the manager
\* already holds.
ODataManager_validate_data(obj, data, ignore_invalid, call) ==
    LET looped == ODataManager_validate_loop(data, ignore_invalid, call, 1,
                                             <<>>, obj.validation_errors)
    IN  [obj |-> [obj EXCEPT !.validation_errors = looped.errors],
         raised |-> looped.raised, value |-> looped.value]

\* EntityManager._validate_obj: the validated object; on a validation error
\* the error is recorded and either raised again or the method falls off its
\* end, returning None.
EntityManager_validate_obj(item, ignore_invalid, call) ==
    LET validated == model_validate(item, call)
    IN  IF validated.raised = "none"
        THEN [raised |-> "none", value |-> validated.obj, errors |-> <<>>]
        ELSE [raised |-> IF ignore_invalid THEN "none" ELSE validated.raised,
              value |-> None, errors |-> << validated.error >>]

RECURSIVE EntityManager_validate_loop(_, _, _, _, _, _)
\* The for loop of EntityManager._validate_data from item i on.
EntityManager_validate_loop(data, ignore_invalid, call, i, results, errors) ==
    IF i > Len(data)
    THEN [raised |-> "none", value |-> results, errors |-> errors]
    ELSE LET one == EntityManager_validate_obj(data[i], ignore_invalid, call)
         IN  IF one.raised # "none"
             THEN [raised |-> one.raised, value |-> <<>>,
                   errors |-> errors \o one.errors]
             ELSE EntityManager_validate_loop(data, ignore_invalid, call,
                      i + 1, Append(results, one.value),
                      errors \o one.errors)

\* EntityManager._validate_data for a list: validation_errors starts empty.
EntityManager_validate_data(obj, data, ignore_invalid, call) ==
    LET looped == EntityManager_validate_loop(data, ignore_invalid, call, 1,
                                              <<>>, <<>>)
    IN  [obj |-> [obj EXCEPT !.validation_errors = looped.errors],
         raised |-> looped.raised, value |-> looped.value]

\* entity_model.model_fields: field name -> alias.
EntityModelAliases ==
    DictSet(DictSet(EmptyDict, <<"Name">>, <<"Description">>),
            <<"Age">>, <<"Age_Years">>)

\* The $filter query parameter: ODataManager._prepare_query_params renders the
\* stored filter with str(), EntityManager.qp_filter with the aliases of the
\* model; no parameter when no filter is stored.
FilterParam(obj) ==
    IF obj._filter = NoQ
    THEN [raised |-> "none", param |-> None]
    ELSE LET built == IF obj.kind = "ODataManager"
                      THEN __str__(obj._filter)
                      ELSE build_expression(obj._filter, EntityModelAliases)
         IN  [raised |-> built.raised, param |-> Some(built.text)]

\* self._filter &= new_q: the stored filter is assigned what & returned, and
\* keeps its value when & raises.
filter_and_assign(obj, combined) ==
    IF combined.raised # "none"
    THEN [obj |-> obj, raised |-> combined.raised]
    ELSE [obj |-> [obj EXCEPT !._filter = combined.node], raised |-> "none"]

\* The body of filter once new_q = Q(*args, **kwargs) has been evaluated.
filter_store(obj, new_q) ==
    IF new_q.raised # "none"
    THEN [obj |-> obj, raised |-> new_q.raised]
    ELSE IF obj._filter # NoQ
    THEN filter_and_assign(obj, __and__(obj._filter, new_q.node))
    ELSE [obj |-> [obj EXCEPT !._filter = new_q.node], raised |-> "none"]

\* filter(*args, **kwargs) of either class: the new Q becomes the stored
\* filter, or is combined by &= with the one already stored.
manager_filter(obj, args, kwargs) == filter_store(obj, Q__init__(args, kwargs))

\* The JSON body of a response: a list under the key "value", an object
\* without that key, or text that is no JSON.
JsonList(items) == [kind |-> "list", items |-> items]

JsonNoKey == [kind |-> "nokey", items |-> <<>>]

NotJson == [kind |-> "notjson", items |-> <<>>]

\* _validate_data of the class of obj.
_validate_data(obj, data, ignore_invalid, call) ==
    IF obj.kind = "ODataManager"
    THEN ODataManager_validate_data(obj, data, ignore_invalid, call)
    ELSE EntityManager_validate_data(obj, data, ignore_invalid, call)

\* What all() returns when _validate_data returned validated.
all_return(validated, qp) ==
    [obj |-> validated.obj, raised |-> validated.raised,
     value |-> validated.value, sent |-> 1, param |-> qp.param]

\* The body of all() once the query parameters qp have been evaluated.
all_request(obj, ignore_invalid, response, call, qp) ==
    LET failed(raised, sent) ==
            [obj |-> obj, raised |-> raised, value |-> <<>>, sent |-> sent,
             param |-> qp.param]
    IN  IF qp.raised # "none" THEN failed(qp.raised, 0)
        ELSE IF send_request(response).raised # "none"
        THEN failed(send_request(response).raised, 1)
        ELSE IF _check_response(response, HTTPStatus_OK).raised # "none"
        THEN failed(_check_response(response, HTTPStatus_OK).raised, 1)
        ELSE IF response.json.kind # "list" THEN failed("ODataError", 1)
        ELSE all_return(_validate_data(obj, response.json.items,
                                       ignore_invalid, call), qp)

\* all(ignore_invalid) of either class: query parameters, one request, status
\* check, JSON parsing, validation.
manager_all(obj, ignore_invalid, response, call) ==
    all_request(obj, ignore_invalid, response, call, FilterParam(obj))

\* Number of all() calls in one behaviour.
MaxCalls == 2

ItemLists ==
    { <<>>,
      << Item("r1", TRUE) >>,
      << Item("r1", FALSE) >>,
      << Item("r1", TRUE), Item("r2", FALSE), Item("r3", TRUE) >>,
      << Item("r1", FALSE), Item("r2", TRUE), Item("r3", FALSE) >> }

\* What the service answers to the request of all().
QueryResponses ==
    { [failed |-> TRUE, status_code |-> 0, reason |-> <<>>,
       text |-> MalformedText, json |-> NotJson],
      [failed |-> FALSE, status_code |-> 404, reason |-> ReasonPhrase(404),
       text |-> MalformedText, json |-> NotJson],
      [failed |-> FALSE, status_code |-> HTTPStatus_OK,
       reason |-> ReasonPhrase(HTTPStatus_OK), text |-> MalformedText,
       json |-> NotJson],
      [failed |-> FALSE, status_code |-> HTTPStatus_OK,
       reason |-> ReasonPhrase(HTTPStatus_OK), text |-> MalformedText,
       json |-> JsonNoKey] }
    \cup { [failed |-> FALSE, status_code |-> HTTPStatus_OK,
            reason |-> ReasonPhrase(HTTPStatus_OK), text |-> MalformedText,
            json |-> JsonList(items)] : items \in ItemLists }

\* The conditions filter() is called with.
FilterKwargs ==
    { << Lookup(Key1("Name"), PyStr("Ivanov")) >>,
      << Lookup(Key2("Age", "gt"), PyInt("30")) >>,
      << Lookup(Key2("a", "like"), PyInt("1")) >>,
      <<>> }

FilterArgs ==
    { <<>>, << Condition(Key1("b"), PyInt("2")) >>, << NonQ >> }

\* The record of a call: op, what it raised and returned, the requests it
\* sent, the $filter parameter of its request, ignore_invalid and the items
\* of the response (all), the stored filter before the call and the Q made
\* from the arguments (filter), and the number of all() calls so far.
NoMgrCall ==
    [op |-> "none", raised |-> "none", value |-> <<>>, sent |-> 0,
     param |-> None, ignore_invalid |-> FALSE, validated |-> FALSE,
     data |-> <<>>, before |-> NoQ, new_q |-> NoQ, call |-> 0]

InitManager ==
    /\ NoManager
    /\ callers = Unused
    /\ pool = Unused
    /\ qCall = Unused
    /\ input = Unused
    /\ output = Unused
    /\ heap = Unused
    /\ held = Unused
    /\ manager \in { NewManager(kind) : kind \in ManagerKinds }
    /\ mgrCall = NoMgrCall

ManagerFrame == UNCHANGED << mmVars, concVars, qVars, pureVars, heapVars >>

\* manager.filter(*args, **kwargs)
mgr_filter ==
    /\ \E args \in FilterArgs : \E kwargs \in FilterKwargs :
       \E new_q \in { Q__init__(args, kwargs) } :
       \E done \in { manager_filter(manager, args, kwargs) } :
             /\ manager' = done.obj
             /\ mgrCall' = [NoMgrCall EXCEPT
                              !.op = "filter", !.raised = done.raised,
                              !.before = manager._filter,
                              !.new_q = new_q.node,
                              !.call = mgrCall.call]
    /\ ManagerFrame

\* manager.all(ignore_invalid)
mgr_all ==
    /\ mgrCall.call < MaxCalls
    /\ \E ignore_invalid \in BOOLEAN : \E response \in QueryResponses :
       \E done \in { manager_all(manager, ignore_invalid, response,
                                 mgrCall.call + 1) } :
             /\ manager' = done.obj
             /\ mgrCall' = [NoMgrCall EXCEPT
                              !.op = "all", !.raised = done.raised,
                              !.value = done.value, !.sent = done.sent,
                              !.param = done.param,
                              !.ignore_invalid = ignore_invalid,
                              !.validated =
                                  (done.sent = 1 /\ ~response.failed
                                   /\ response.status_code = HTTPStatus_OK
                                   /\ response.json.kind = "list"),
                              !.data = response.json.items,
                              !.call = mgrCall.call + 1]
    /\ ManagerFrame

NextManager ==
    \/ mgr_filter
    \/ mgr_all

SpecManager == InitManager /\ [][NextManager]_vars

\* C25: filter(c1) followed by filter(c2) succeeds and stores (c1 AND c2), so
\* the $filter of the next all() renders both conditions joined by and; the
\* same for every further filter call.
C25_FiltersAccumulate ==
    /\ (mgrCall.op = "filter" /\ mgrCall.before # NoQ
        /\ mgrCall.new_q # NoQ) =>
          /\ mgrCall.raised = "none"
          /\ manager._filter = Node(<< mgrCall.before, mgrCall.new_q >>,
                                    Q_AND, FALSE)
    /\ (mgrCall.op = "all" /\ mgrCall.sent = 1 /\ manager._filter # NoQ) =>
          mgrCall.param =
              Some(build_expression(manager._filter,
                       IF manager.kind = "EntityManager"
                       THEN EntityModelAliases ELSE EmptyDict).text)

\* The model objects of the valid items of data, in order.
ValidObjects(data) ==
    LET valid == SelectSeq(data, LAMBDA item : item.valid)
    IN  [i \in 1..Len(valid) |-> [model |-> valid[i].id]]

\* The errors of the invalid items of data, in order, raised in call.
ErrorsOf(data, call) ==
    LET invalid == SelectSeq(data, LAMBDA item : ~item.valid)
    IN  [i \in 1..Len(invalid) |-> [item |-> invalid[i].id, call |-> call]]

\* C26: all(ignore_invalid=True) returns exactly the validated objects of the
\* valid items, in order, with no placeholder for a skipped item, and records
\* one error per invalid item of the response.
C26_InvalidItemsSkipped ==
    (mgrCall.op = "all" /\ mgrCall.validated /\ mgrCall.ignore_invalid) =>
        /\ mgrCall.raised = "none"
        /\ mgrCall.value = ValidObjects(mgrCall.data)
        /\ \A i \in 1..Len(mgrCall.value) : mgrCall.value[i] # None
        /\ SelectSeq(manager.validation_errors,
                     LAMBDA e : e.call = mgrCall.call)
             = ErrorsOf(mgrCall.data, mgrCall.call)

\* The errors an all() call raises for the items of its response: all of the
\* invalid items when they are skipped, the first one when it is raised.
RaisedErrors(data, ignore_invalid, call) ==
    LET all_errors == ErrorsOf(data, call)
    IN  IF ignore_invalid \/ all_errors = <<>> THEN all_errors
        ELSE << all_errors[1] >>

\* C30: after each all() call that validated a response, validation_errors
\* holds exactly the errors raised for the items of that response and none
\* of an earlier call.
C30_ErrorsOfLastCallOnly ==
    (mgrCall.op = "all" /\ mgrCall.validated) =>
        manager.validation_errors =
            RaisedErrors(mgrCall.data, mgrCall.ignore_invalid, mgrCall.call)

\* The three cached structures of obj are those parsed from document d.
DerivedFrom(obj, d) ==
    LET parsed == _parse_metadata_tree(Docs[d])
    IN  /\ obj._entity_sets = parsed.entity_sets
        /\ obj._entity_types = parsed.entity_types
        /\ obj._entity_type_properties = parsed.entity_type_properties

\* C28: whenever the loaded flag is true, and so once two concurrent loads
\* that received different documents have both finished, entity_sets,
\* entity_types and entity_type_properties all derive from one and the same
\* document.
C28_CacheFromOneDocument ==
    self._is_metadata_loaded => \E d \in { 1, 2 } : DerivedFrom(self, d)

\* The case named in C28 first: both loads have run to their end, each on a
\* different document, and no caller is inside an accessor.
C28_BothFinishedMixed ==
    /\ self._is_metadata_loaded
    /\ \A c \in Callers : callers[c].pc = "idle" /\ callers[c].sent = 1
                          /\ callers[c].raised = "none"
    /\ callers[1].doc # callers[2].doc
    /\ ~\E d \in { 1, 2 } : DerivedFrom(self, d)


\* ------------------------------------- MetadataManager: the lists as objects

\* The accessors return the list objects the manager holds, not copies, so
\* what a caller sees in a list it was handed depends on what the manager does
\* to that object later.  Here self._entity_sets and self._entity_types are
\* addresses, and heap[a] is the content of the list object at address a.

\* __init__: two new empty lists.
NewHeap == << <<>>, <<>> >>

NewManagerOfLists ==
    [_is_metadata_loaded |-> FALSE,
     _entity_sets |-> 1,
     _entity_types |-> 2,
     _entity_type_properties |-> EmptyDict]

\* The object with the contents of its lists in the place of their addresses.
Deref(obj, h) ==
    [obj EXCEPT !._entity_sets = h[@], !._entity_types = h[@]]

\* What _ensure_metadata_loaded leaves on the heap when, on the contents,
\* it came to ensured.
assign_lists(obj, h, ensured) ==
    IF ~obj._is_metadata_loaded /\ ensured.raised = "none"
    THEN [obj |-> [_is_metadata_loaded |-> TRUE,
                   _entity_sets |-> Len(h) + 1,
                   _entity_types |-> Len(h) + 2,
                   _entity_type_properties |->
                       ensured.obj._entity_type_properties],
          heap |-> h \o << ensured.obj._entity_sets,
                           ensured.obj._entity_types >>,
          raised |-> "none", sent |-> ensured.sent]
    ELSE [obj |-> obj, heap |-> h, raised |-> ensured.raised,
          sent |-> ensured.sent]

\* _ensure_metadata_loaded on list objects: a load that succeeds assigns the
\* two lists _parse_metadata_tree built, which are new objects, and leaves the
\* objects held before as they are; a failed load and a loaded manager assign
\* nothing.
_ensure_metadata_loaded_lists(obj, h, response) ==
    assign_lists(obj, h, _ensure_metadata_loaded(Deref(obj, h), response))

\* reset_metadata on list objects: .clear() empties the objects the fields
\* refer to and assigns no field but the flag.
reset_metadata_lists(obj, h) ==
    [obj |-> [obj EXCEPT !._is_metadata_loaded = FALSE,
                         !._entity_type_properties = EmptyDict],
     heap |-> [h EXCEPT ![obj._entity_sets] = <<>>,
                        ![obj._entity_types] = <<>>]]

\* The caller holds no list yet.
NoList == [op |-> "none", ref |-> 0, names |-> <<>>]

InitLists ==
    /\ self = NewManagerOfLists
    /\ requests = 0
    /\ lastCall = Unused
    /\ history = Unused
    /\ callers = Unused
    /\ pool = Unused
    /\ qCall = Unused
    /\ input = Unused
    /\ output = Unused
    /\ manager = Unused
    /\ mgrCall = Unused
    /\ heap = NewHeap
    /\ held = NoList

ListsFrame ==
    UNCHANGED << lastCall, history, concVars, qVars, pureVars, mgrVars >>

\* One accessor call.  The list accessors return the address in the field;
\* the caller keeps the list it is handed (with the names it holds at that
\* moment) or lets it go.
ListsAccessor(op, response, keep) ==
    \E ensured \in { _ensure_metadata_loaded_lists(self, heap, response) } :
    \E returned \in { IF op = "get_entity_sets" THEN ensured.obj._entity_sets
                      ELSE ensured.obj._entity_types } :
        /\ requests + ensured.sent <= MaxFetches
        /\ self' = ensured.obj
        /\ heap' = ensured.heap
        /\ requests' = requests + ensured.sent
        /\ held' = IF ensured.raised = "none" /\ keep
                      /\ op \in { "get_entity_sets", "get_entity_types" }
                   THEN [op |-> op, ref |-> returned,
                         names |-> ensured.heap[returned]]
                   ELSE held
        /\ ListsFrame

lists_get_entity_sets ==
    \E response \in Offered(self) : \E keep \in BOOLEAN :
        ListsAccessor("get_entity_sets", response, keep)

lists_get_entity_types ==
    \E response \in Offered(self) : \E keep \in BOOLEAN :
        ListsAccessor("get_entity_types", response, keep)

\* get_properties returns a list built by the call, which no one else holds.
lists_get_properties ==
    \E response \in Offered(self) :
        ListsAccessor("get_properties", response, FALSE)

lists_reset_metadata ==
    LET done == reset_metadata_lists(self, heap)
    IN  /\ self' = done.obj
        /\ heap' = done.heap
        /\ UNCHANGED << requests, held >>
        /\ ListsFrame

NextLists ==
    \/ lists_get_entity_sets
    \/ lists_get_entity_types
    \/ lists_get_properties
    \/ lists_reset_metadata

SpecLists == InitLists /\ [][NextLists]_vars

\* C27: a list obtained from get_entity_sets() or get_entity_types() holds, at
\* every later moment (after reset_metadata() and after the reload that
\* follows it too), the names it held when it was handed out.
C27_HandedOutListsKeepNames ==
    held # NoList => heap[held.ref] = held.names


=============================================================================
